---- MODULE Spec2Model ----
(***************************************************************************)
(* Hierarchical memory and retrieval engine of the virtual pet.            *)
(*                                                                         *)
(* Texts are TLA+ strings; Len, \o and SubSeq act on them character by     *)
(* character.  Times are minutes since the start of the run.  Scores that  *)
(* the program keeps as floats in [0,1] are kept as integers scaled by     *)
(* Scale.                                                                  *)
(***************************************************************************)
EXTENDS Integers, Sequences, FiniteSets, TLC

-----------------------------------------------------------------------------
(* Text primitives (Python str operations)                                 *)

Ch(s, i) == SubSeq(s, i, i)

IsSpace(c) == c = " "

UpperCase == <<"A", "B", "C", "D", "E", "F", "G", "H", "I", "J", "K", "L", "M",
               "N", "O", "P", "Q", "R", "S", "T", "U", "V", "W", "X", "Y", "Z">>

LowerCase == <<"a", "b", "c", "d", "e", "f", "g", "h", "i", "j", "k", "l", "m",
               "n", "o", "p", "q", "r", "s", "t", "u", "v", "w", "x", "y", "z">>

Digits == {"0", "1", "2", "3", "4", "5", "6", "7", "8", "9"}

\* the lower-case letter of each upper-case one
UpperToLower ==
    [c \in {UpperCase[k] : k \in 1..26} |-> LowerCase[CHOOSE k \in 1..26 : UpperCase[k] = c]]

LowerCh(c) == IF c \in DOMAIN UpperToLower THEN UpperToLower[c] ELSE c

RECURSIVE Lower(_)
Lower(s) ==
    IF \A i \in 1..Len(s) : Ch(s, i) \notin DOMAIN UpperToLower THEN s
    ELSE LowerCh(Ch(s, 1)) \o Lower(SubSeq(s, 2, Len(s)))

\* \w of the re module
IsWordCh(c) ==
    \/ \E k \in 1..26 : UpperCase[k] = c \/ LowerCase[k] = c
    \/ c \in Digits
    \/ c \in {"_", "é", "ã"}

RECURSIVE SkipSpaces(_, _)
SkipSpaces(s, i) ==
    IF i <= Len(s) /\ IsSpace(Ch(s, i)) THEN SkipSpaces(s, i + 1) ELSE i

RECURSIVE SkipWord(_, _)
SkipWord(s, i) ==
    IF i <= Len(s) /\ IsWordCh(Ch(s, i)) THEN SkipWord(s, i + 1) ELSE i

RECURSIVE BackSpaces(_, _)
BackSpaces(s, j) ==
    IF j >= 1 /\ IsSpace(Ch(s, j)) THEN BackSpaces(s, j - 1) ELSE j

\* str.strip()
Strip(s) == SubSeq(s, SkipSpaces(s, 1), BackSpaces(s, Len(s)))

\* slice s[:n]
Prefix(s, n) == SubSeq(s, 1, IF n < Len(s) THEN n ELSE Len(s))

StartsAt(s, i, lit) ==
    /\ i >= 1
    /\ i + Len(lit) - 1 <= Len(s)
    /\ SubSeq(s, i, i + Len(lit) - 1) = lit

\* `needle in s`
Contains(s, needle) == \E i \in 1..(Len(s) + 1) : StartsAt(s, i, needle)

\* str.rfind(" "): 0-based index of the last blank, -1 when there is none
RFindSpace(s) ==
    IF \E i \in 1..Len(s) : IsSpace(Ch(s, i))
    THEN (CHOOSE i \in 1..Len(s) :
             /\ IsSpace(Ch(s, i))
             /\ \A j \in (i + 1)..Len(s) : ~IsSpace(Ch(s, j))) - 1
    ELSE -1

-----------------------------------------------------------------------------
(* Regular-expression pieces used by CommitmentDetector.  A result carries *)
(* whether the pattern matched and the text of the group that is returned. *)

None == [found |-> FALSE, text |-> ""]

Some(t) == [found |-> TRUE, text |-> t]

\* position after `lit\s+` when it matches at i, else 0
AfterLit(s, i, lit) ==
    LET w == i + Len(lit)
    IN  IF i >= 1 /\ StartsAt(s, i, lit) /\ w <= Len(s) /\ IsSpace(Ch(s, w))
        THEN SkipSpaces(s, w)
        ELSE 0

\* start of a `(.+)` that follows a greedy `\s+` which began at w and ran up
\* to j: the blanks give one character back when nothing else is left
DotPlus(s, w, j) ==
    IF j <= Len(s) THEN j
    ELSE IF j - 1 > w THEN j - 1
    ELSE 0

\* `lit\s+(.+)` at i
LitThenRest(s, i, lit) ==
    LET j == AfterLit(s, i, lit)
        c == IF j = 0 THEN 0 ELSE DotPlus(s, i + Len(lit), j)
    IN  IF c > 0 THEN Some(SubSeq(s, c, Len(s))) ELSE None

\* `lit\s+(?:opt\s+)?(.+)` at i
LitOptThenRest(s, i, lit, opt) ==
    LET j == AfterLit(s, i, lit)
        withOpt == IF j = 0 THEN None ELSE LitThenRest(s, j, opt)
    IN  IF withOpt.found THEN withOpt ELSE LitThenRest(s, i, lit)

\* `lit\s+(\w+)` at i
LitThenWord(s, i, lit) ==
    LET j == AfterLit(s, i, lit)
        e == IF j = 0 THEN 0 ELSE SkipWord(s, j)
    IN  IF j > 0 /\ e > j THEN Some(SubSeq(s, j, e - 1)) ELSE None

\* a\s+partir\s+de\s+agora\s+(.+)
FromNowOn(s, i) ==
    LET j1 == AfterLit(s, i, "a")
        j2 == AfterLit(s, j1, "partir")
        j3 == AfterLit(s, j2, "de")
    IN  LitThenRest(s, j3, "agora")

\* sempre\s+que\s+(.+),\s*(?:vou|farei)\s+(.+)   (group 1 is returned)
Whenever(s, i) ==
    LET j1 == AfterLit(s, i, "sempre")
        w  == j1 + 3
        g  == AfterLit(s, j1, "que")
        TailOk(c) == LET k == SkipSpaces(s, c + 1)
                   IN  LitThenRest(s, k, "vou").found \/ LitThenRest(s, k, "farei").found
        Start(c) == IF c > g THEN g ELSE IF c = g /\ c - 1 > w THEN c - 1 ELSE 0
        Commas == {c \in 1..Len(s) : g > 0 /\ Ch(s, c) = "," /\ Start(c) > 0 /\ TailOk(c)}
    IN  IF Commas = {} THEN None
        ELSE LET c == CHOOSE c \in Commas : \A d \in Commas : d <= c
             IN  Some(SubSeq(s, Start(c), c - 1))

\* (?:meu|o)\s+nome\s+(?:é|eh)\s+(\w+)
MyNameIs(s, i) ==
    LET Via(first) ==
            LET j1 == AfterLit(s, i, first)
                j2 == AfterLit(s, j1, "nome")
                a  == LitThenWord(s, j2, "é")
                b  == LitThenWord(s, j2, "eh")
            IN  IF a.found THEN a ELSE b
    IN  IF Via("meu").found THEN Via("meu") ELSE Via("o")

\* não\s+gosto\s+(?:de\s+)?(.+)
DontLike(s, i) == LitOptThenRest(s, AfterLit(s, i, "não"), "gosto", "de")

\* (?:me\s+chamo|chamo-me)\s+(\w+)
CallMe(s, i) ==
    LET a == LitThenWord(s, AfterLit(s, i, "me"), "chamo")
        b == LitThenWord(s, i, "chamo-me")
    IN  IF a.found THEN a ELSE b

\* re.search: the match at the leftmost position where P matches
Search(s, P(_, _)) ==
    LET Hits == {i \in 1..Len(s) : P(s, i).found}
    IN  IF Hits = {} THEN None
        ELSE P(s, CHOOSE i \in Hits : \A k \in Hits : i <= k)

\* leftmost start of a match of P, 0 when there is none (for group 0)
SearchStart(s, P(_, _)) ==
    LET Hits == {i \in 1..Len(s) : P(s, i).found}
    IN  IF Hits = {} THEN 0 ELSE CHOOSE i \in Hits : \A k \in Hits : i <= k

Vou(s, i) == LitOptThenRest(s, i, "vou", "te")

Posso(s, i) == LitOptThenRest(s, i, "posso", "te")

Prometo(s, i) == LitThenRest(s, i, "prometo")

Vamos(s, i) == LitThenRest(s, i, "vamos")

NaVerdade(s, i) == LitThenRest(s, AfterLit(s, i, "na"), "verdade")

Prefiro(s, i) == LitThenRest(s, i, "prefiro")

\* (?:poderia|pode|consegue)\s+(.+)
CouldYou(s, i) ==
    IF LitThenRest(s, i, "poderia").found THEN LitThenRest(s, i, "poderia")
    ELSE IF LitThenRest(s, i, "pode").found THEN LitThenRest(s, i, "pode")
    ELSE LitThenRest(s, i, "consegue")

\* (?:você\s+)?(?:sabe|conhece)\s+(.+)
DoYouKnow(s, i) ==
    LET Verb(k) == IF LitThenRest(s, k, "sabe").found THEN LitThenRest(s, k, "sabe")
                   ELSE LitThenRest(s, k, "conhece")
        j == AfterLit(s, i, "você")
    IN  IF Verb(j).found THEN Verb(j) ELSE Verb(i)

\* CommitmentDetector.detect_commitment: description of the promise, or None
detect_commitment(pet_message) ==
    LET low == Lower(pet_message)
        m == IF Search(low, Vou).found THEN Search(low, Vou)
             ELSE IF Search(low, Posso).found THEN Search(low, Posso)
             ELSE IF Search(low, FromNowOn).found THEN Search(low, FromNowOn)
             ELSE IF Search(low, Whenever).found THEN Search(low, Whenever)
             ELSE IF Search(low, Prometo).found THEN Search(low, Prometo)
             ELSE Search(low, Vamos)
    IN  IF m.found THEN Some(Strip(m.text)) ELSE None

\* CommitmentDetector.detect_correction: (type, value), or None
detect_correction(user_message) ==
    LET low == Lower(user_message)
        Typed(kind, m) == [found |-> TRUE, kind |-> kind, text |-> Strip(m.text)]
    IN  IF Search(low, NaVerdade).found THEN Typed("correction", Search(low, NaVerdade))
        ELSE IF Search(low, MyNameIs).found THEN Typed("name", Search(low, MyNameIs))
        ELSE IF Search(low, Prefiro).found THEN Typed("preference", Search(low, Prefiro))
        ELSE IF Search(low, DontLike).found THEN Typed("preference", Search(low, DontLike))
        ELSE IF Search(low, CallMe).found THEN Typed("correction", Search(low, CallMe))
        ELSE [found |-> FALSE, kind |-> "", text |-> ""]

\* CommitmentDetector.detect_open_loop: the matched question text, or None
detect_open_loop(user_message) ==
    LET s == user_message
        n == Len(s)
    IN  IF n >= 2 /\ Ch(s, n) = "?" THEN Some(Strip(s))
        ELSE IF SearchStart(s, CouldYou) > 0
             THEN Some(Strip(SubSeq(s, SearchStart(s, CouldYou), n)))
        ELSE IF SearchStart(s, DoYouKnow) > 0
             THEN Some(Strip(SubSeq(s, SearchStart(s, DoYouKnow), n)))
        ELSE None

-----------------------------------------------------------------------------
(* Numbers                                                                 *)

Scale == 10000

Minute == 1

Hour == 60

Day == 1440

NoTime == -1

Min(a, b) == IF a < b THEN a ELSE b

Max(a, b) == IF a > b THEN a ELSE b

\* Scale * exp(-elapsed / tau) for elapsed >= 0, both in minutes: Taylor
\* polynomial of exp(-x/16) raised to the 16th power, exact to about 2e-3
ExpNeg(elapsed, tau) ==
    IF elapsed >= 10 * tau THEN 0
    ELSE LET y  == (Scale * elapsed) \div (16 * tau)
             t2 == (y * y) \div (2 * Scale)
             t3 == (t2 * y) \div (3 * Scale)
             t4 == (t3 * y) \div (4 * Scale)
             t5 == (t4 * y) \div (5 * Scale)
             r1 == Scale - y + t2 - t3 + t4 - t5
             r2 == (r1 * r1) \div Scale
             r4 == (r2 * r2) \div Scale
             r8 == (r4 * r4) \div Scale
         IN  (r8 * r8) \div Scale

\* Scale * min(1, ln(1 + count) / ln(10))
Log10Table == <<3010, 4771, 6021, 6990, 7782, 8451, 9031, 9542>>

RepetitionScore(count) ==
    IF count <= 0 THEN 0
    ELSE IF count >= 9 THEN Scale
    ELSE Log10Table[count]

\* the weighted sum of calculate_salience as it is, not brought into the range
salience_unclamped(elapsed, repetition_count, is_novel, emotion_intensity, is_explicit) ==
    (25 * ExpNeg(elapsed, 24 * Hour) + 15 * RepetitionScore(repetition_count)
         + 20 * (IF is_novel THEN Scale ELSE 0) + 15 * Min(Scale, emotion_intensity)
         + 25 * (IF is_explicit THEN Scale ELSE 0)) \div 100

\* SalienceScorer.calculate_salience with the default weights
calculate_salience(elapsed, repetition_count, is_novel, emotion_intensity, is_explicit) ==
    LET recency_score    == ExpNeg(elapsed, 24 * Hour)
        repetition_score == RepetitionScore(repetition_count)
        novelty_score    == IF is_novel THEN Scale ELSE 0
        emotion_score    == Min(Scale, emotion_intensity)
        explicit_score   == IF is_explicit THEN Scale ELSE 0
        salience == (25 * recency_score + 15 * repetition_score + 20 * novelty_score
                     + 15 * emotion_score + 25 * explicit_score) \div 100
    IN  Min(Scale, Max(0, salience))

\* AdvancedMemoryManager._estimate_tokens
EstimateTokens(text) == Len(text) \div 4

-----------------------------------------------------------------------------
(* Bounds of the exploration                                               *)

MaxTurns == 2

MaxTicks == 1

MaxRestarts == 1

MaxMarks == 1

LifecycleTurns == 4

LifecycleTicks == 1

LifecycleMarks == 1

\* the largest max_tokens retrieve_context is asked for
MaxBudget == 40

-----------------------------------------------------------------------------
(* State                                                                   *)

VARIABLES
    now,               \* datetime.utcnow()
    next_id,           \* source of uuid4 values
    firestore_client,  \* TRUE when a Firestore client is configured
    fs_events,         \* users/{id}/memories/events documents
    fs_commitments,    \* users/{id}/memories/commitments documents
    fs_semantic,       \* users/{id}/memories/semantic documents
    session_turns,     \* AdvancedMemoryManager.session_turns
    current_turns,     \* EventSegmenter.current_turns
    last_embedding,    \* EventSegmenter.last_embedding
    last_timestamp,    \* EventSegmenter.last_timestamp
    events_cache,      \* AdvancedMemoryManager.events_cache
    commitments_cache, \* AdvancedMemoryManager.commitments_cache
    semantic_cache,    \* AdvancedMemoryManager.semantic_cache
    metrics,           \* MemoryMetrics
    last_op,           \* the operation that produced this state
    used               \* how many turns, ticks, restarts, mark-done calls so far

mgr_vars == <<now, next_id, firestore_client, fs_events, fs_commitments, fs_semantic,
              session_turns, current_turns, last_embedding, last_timestamp,
              events_cache, commitments_cache, semantic_cache, metrics, last_op, used>>

NoEmbedding == <<>>

\* the (user message, pet reply, user embedding) triples a turn is drawn from
TurnInputs ==
    { [user |-> "oi", pet |-> "ok", embedding |-> NoEmbedding],
      [user |-> "meu nome eh ana",
       pet |-> "Vou te lembrar amanha cedo de comprar leite, pao e cafe na padaria",
       embedding |-> <<1, 0>>],
      [user |-> "na verdade, meu nome eh bia?", pet |-> "prometo ajudar",
       embedding |-> <<0, 1>>],
      [user |-> "prefiro cafe", pet |-> "ok", embedding |-> NoEmbedding] }

\* the turns of the commitment life cycle: a reply with a promise, one without
LifecycleInputs ==
    {inp \in TurnInputs : inp.user \in {"oi", "meu nome eh ana"}}

\* what the detectors find in each of these inputs
Detected ==
    [inp \in TurnInputs |->
        [commitment |-> detect_commitment(inp.pet),
         correction |-> detect_correction(inp.user),
         open_loop  |-> detect_open_loop(inp.user)]]

\* how far the clock may advance between two operations
TickSteps == {11 * Minute, 3 * Day, 30 * Day}

LifecycleTickSteps == {3 * Day, 30 * Day}

Budgets == 0..MaxBudget

-----------------------------------------------------------------------------
(* Serialization (to_dict / from_dict)                                     *)

\* datetime.isoformat and datetime.fromisoformat
IsoFormat(t) == <<"iso", t>>

FromIsoFormat(d) == d[2]

MapSeq(seq, F(_)) ==
    LET RECURSIVE From(_)
        From(i) == IF i > Len(seq) THEN <<>> ELSE <<F(seq[i])>> \o From(i + 1)
    IN  From(1)

Commitment_to_dict(c) ==
    [commitment_id |-> c.commitment_id, desc |-> c.desc, made_at |-> IsoFormat(c.made_at),
     status |-> c.status,
     reactivation_schedule |-> MapSeq(c.reactivation_schedule, IsoFormat)]

Commitment_from_dict(d) ==
    [commitment_id |-> d.commitment_id, desc |-> d.desc, made_at |-> FromIsoFormat(d.made_at),
     status |-> d.status,
     reactivation_schedule |-> MapSeq(d.reactivation_schedule, FromIsoFormat)]

SemanticFact_to_dict(f) ==
    [fact_id |-> f.fact_id, triple |-> f.triple, confidence |-> f.confidence,
     importance |-> f.importance, last_reinforced |-> IsoFormat(f.last_reinforced)]

SemanticFact_from_dict(d) ==
    [fact_id |-> d.fact_id, triple |-> d.triple, confidence |-> d.confidence,
     importance |-> d.importance, last_reinforced |-> FromIsoFormat(d.last_reinforced)]

EventRecord_to_dict(e) ==
    [event_id |-> e.event_id, title |-> e.title,
     time_range |-> <<IsoFormat(e.time_range[1]), IsoFormat(e.time_range[2])>>,
     summary |-> e.summary, salience |-> e.salience]

EventRecord_from_dict(d) ==
    [event_id |-> d.event_id, title |-> d.title,
     time_range |-> <<FromIsoFormat(d.time_range[1]), FromIsoFormat(d.time_range[2])>>,
     summary |-> d.summary, salience |-> d.salience]

\* document(id).set(data) on a collection kept as a set of [id, data] pairs
SetDoc(coll, id, data) == {d \in coll : d.id # id} \cup {[id |-> id, data |-> data]}

\* the orders in which stream() may return the documents of a collection
\* (document ids are uuid4 values, unrelated to the order of creation)
StreamOrders(coll) ==
    LET n == Cardinality(coll)
    IN  {q \in [1..n -> coll] : \A i, j \in 1..n : i # j => q[i] # q[j]}

-----------------------------------------------------------------------------
(* EventSegmenter                                                          *)

TimeGapMinutes == 10

TopicThresholdPct == 30

Dot(a, b) ==
    LET RECURSIVE Sum(_)
        Sum(i) == IF i = 0 THEN 0 ELSE a[i] * b[i] + Sum(i - 1)
    IN  Sum(Len(a))

\* EventSegmenter._cosine_distance(vec1, vec2) > topic_threshold
DistanceExceedsThreshold(vec1, vec2) ==
    IF vec1 = NoEmbedding \/ vec2 = NoEmbedding \/ Len(vec1) # Len(vec2) THEN FALSE
    ELSE IF Dot(vec1, vec1) = 0 \/ Dot(vec2, vec2) = 0 THEN 100 > TopicThresholdPct
    ELSE \/ Dot(vec1, vec2) < 0
         \/ 10000 * Dot(vec1, vec2) * Dot(vec1, vec2)
               < (100 - TopicThresholdPct) * (100 - TopicThresholdPct)
                   * Dot(vec1, vec1) * Dot(vec2, vec2)

\* a should_segment that never forces a segment
should_segment_unforced(turns, lastEmb, lastTs, new_embedding, new_timestamp) ==
    IF Len(turns) < 3 THEN FALSE
    ELSE IF lastTs # NoTime /\ new_timestamp - lastTs > TimeGapMinutes THEN TRUE
    ELSE IF lastEmb # NoEmbedding /\ new_embedding # NoEmbedding
            /\ DistanceExceedsThreshold(lastEmb, new_embedding) THEN TRUE
    ELSE FALSE

\* a should_segment that takes a gap of exactly time_gap_minutes as a gap already
should_segment_from_gap(turns, lastEmb, lastTs, new_embedding, new_timestamp) ==
    IF Len(turns) < 3 THEN FALSE
    ELSE IF Len(turns) >= 10 THEN TRUE
    ELSE IF lastTs # NoTime /\ new_timestamp - lastTs >= TimeGapMinutes THEN TRUE
    ELSE IF lastEmb # NoEmbedding /\ new_embedding # NoEmbedding
            /\ DistanceExceedsThreshold(lastEmb, new_embedding) THEN TRUE
    ELSE FALSE

\* EventSegmenter.should_segment
should_segment(turns, lastEmb, lastTs, new_embedding, new_timestamp) ==
    IF Len(turns) < 3 THEN FALSE
    ELSE IF Len(turns) >= 10 THEN TRUE
    ELSE IF lastTs # NoTime /\ new_timestamp - lastTs > TimeGapMinutes THEN TRUE
    ELSE IF lastEmb # NoEmbedding /\ new_embedding # NoEmbedding
            /\ DistanceExceedsThreshold(lastEmb, new_embedding) THEN TRUE
    ELSE FALSE

RECURSIVE Join(_, _)
Join(parts, sep) ==
    IF Len(parts) = 0 THEN ""
    ELSE IF Len(parts) = 1 THEN parts[1]
    ELSE parts[1] \o sep \o Join(SubSeq(parts, 2, Len(parts)), sep)

\* EventSegmenter.create_event without a summarizer; turns is not empty
create_event(turns, event_id) ==
    LET title    == "Conversa (" \o ToString(Len(turns)) \o " turnos)"
        firsts   == SubSeq(turns, 1, Min(3, Len(turns)))
        messages == [i \in 1..Len(firsts) |-> Prefix(firsts[i].user, 50) \o "..."]
        summary  == Join(messages, " | ")
    IN  [event_id   |-> event_id,
         title      |-> Prefix(title, 80),
         time_range |-> <<turns[1].timestamp, turns[Len(turns)].timestamp>>,
         summary    |-> Prefix(summary, 500),
         salience   |-> Scale \div 2]

-----------------------------------------------------------------------------
(* AdvancedMemoryManager                                                   *)

ReactivationDays == <<1, 3, 7, 30>>

EventRetentionDays == 30

NoMetrics ==
    [commitments_made |-> 0, commitments_fulfilled |-> 0, open_loops_created |-> 0,
     turns_processed |-> 0, tokens_per_turn |-> <<>>]

\* MemoryMetrics.get_commitment_resolution_rate, as <<numerator, denominator>>
\* (0.0 is <<0, 1>>)
CommitmentResolutionRate(m) ==
    IF m.commitments_made = 0 THEN <<0, 1>>
    ELSE <<m.commitments_fulfilled, m.commitments_made>>

\* a commitment that is not active when it is made
NewCommitmentPending(commitment_id, desc, timestamp) ==
    [commitment_id |-> commitment_id,
     desc |-> desc,
     made_at |-> timestamp,
     status |-> "pending",
     reactivation_schedule |-> [i \in 1..Len(ReactivationDays) |->
                                   timestamp + ReactivationDays[i] * Day]]

\* the commitment _create_commitment builds
NewCommitment(commitment_id, desc, timestamp) ==
    [commitment_id |-> commitment_id,
     desc |-> desc,
     made_at |-> timestamp,
     status |-> "active",
     reactivation_schedule |-> [i \in 1..Len(ReactivationDays) |->
                                   timestamp + ReactivationDays[i] * Day]]

\* the fact _handle_correction builds
NewCorrectionFact(fact_id, correction, timestamp) ==
    [fact_id |-> fact_id,
     triple |-> <<"user", correction.kind, correction.text>>,
     confidence |-> Scale,
     importance |-> (95 * Scale) \div 100,
     last_reinforced |-> timestamp]

\* _find_semantic_fact: index of the first fact with this subject and relation, 0 if none
FindSemanticFact(cache, subject, relation) ==
    LET Hits == {i \in 1..Len(cache) :
                    cache[i].triple[1] = subject /\ cache[i].triple[2] = relation}
    IN  IF Hits = {} THEN 0 ELSE CHOOSE i \in Hits : \A k \in Hits : i <= k

\* the semantic cache after _handle_correction
CacheAfterCorrection(cache, fact) ==
    LET k == FindSemanticFact(cache, fact.triple[1], fact.triple[2])
    IN  IF k > 0
        THEN [cache EXCEPT ![k] = [@ EXCEPT !.triple = fact.triple,
                                            !.confidence = Scale,
                                            !.importance = (95 * Scale) \div 100,
                                            !.last_reinforced = fact.last_reinforced]]
        ELSE Append(cache, fact)

\* the events cache after _save_event at time t
CacheAfterSaveEvent(cache, event, t) ==
    LET cutoff == t - EventRetentionDays * Day
        Recent(e) == e.time_range[2] >= cutoff
    IN  SelectSeq(Append(cache, event), Recent)

\* AdvancedMemoryManager.__init__ on an empty store
MgrStart ==
    /\ now = 0
    /\ next_id = 1
    /\ fs_events = {}
    /\ fs_commitments = {}
    /\ fs_semantic = {}
    /\ session_turns = <<>>
    /\ current_turns = <<>>
    /\ last_embedding = NoEmbedding
    /\ last_timestamp = NoTime
    /\ events_cache = <<>>
    /\ commitments_cache = <<>>
    /\ semantic_cache = <<>>
    /\ metrics = NoMetrics
    /\ last_op = "init"
    /\ used = [turns |-> 0, ticks |-> 0, restarts |-> 0, marks |-> 0]

\* the manager is built with a Firestore client or with None
MgrInit == firestore_client \in BOOLEAN /\ MgrStart

\* the clock advances between two operations
Tick(d) ==
    /\ now' = now + d
    /\ used' = [used EXCEPT !.ticks = @ + 1]
    /\ last_op' = "tick"
    /\ UNCHANGED <<next_id, firestore_client, fs_events, fs_commitments, fs_semantic,
                   session_turns, current_turns, last_embedding, last_timestamp,
                   events_cache, commitments_cache, semantic_cache, metrics>>

\* a segmentation that leaves the turns of the closed segment in the open one
TurnsKeptAfterTurn(turns, segment, turn_data) == Append(turns, turn_data)

\* the open segment after process_turn: create_event empties it when the turn
\* segments, then add_turn appends the turn
TurnsAfterTurn(turns, segment, turn_data) ==
    Append(IF segment THEN <<>> ELSE turns, turn_data)

\* AdvancedMemoryManager.process_turn
ProcessTurn(inp) ==
    \E detected \in {Detected[inp]},
       segment \in {should_segment(current_turns, last_embedding, last_timestamp,
                                   inp.embedding, now)} :
    LET timestamp  == now
        turn_data  == [user |-> inp.user, pet |-> inp.pet, timestamp |-> timestamp,
                       embedding |-> inp.embedding]
        commitment == detected.commitment
        promised   == commitment.found /\ commitment.text # ""
        correction == detected.correction
        open_loop  == detected.open_loop
        commitment_id == next_id
        fact_id    == next_id + (IF promised THEN 1 ELSE 0)
        event_id   == fact_id + (IF correction.found THEN 1 ELSE 0)
        made       == NewCommitment(commitment_id, commitment.text, timestamp)
        fact       == NewCorrectionFact(fact_id, correction, timestamp)
        event      == create_event(current_turns, event_id)
    IN  /\ session_turns' = Append(session_turns, turn_data)
        /\ commitments_cache' =
               IF promised THEN Append(commitments_cache, made) ELSE commitments_cache
        /\ fs_commitments' =
               IF promised /\ firestore_client
               THEN SetDoc(fs_commitments, commitment_id, Commitment_to_dict(made))
               ELSE fs_commitments
        /\ semantic_cache' =
               IF correction.found THEN CacheAfterCorrection(semantic_cache, fact)
               ELSE semantic_cache
        /\ fs_semantic' =
               IF correction.found /\ firestore_client
               THEN SetDoc(fs_semantic, fact_id, SemanticFact_to_dict(fact))
               ELSE fs_semantic
        /\ events_cache' =
               IF segment THEN CacheAfterSaveEvent(events_cache, event, now)
               ELSE events_cache
        /\ fs_events' =
               IF segment /\ firestore_client
               THEN SetDoc(fs_events, event_id, EventRecord_to_dict(event))
               ELSE fs_events
        /\ current_turns' = TurnsAfterTurn(current_turns, segment, turn_data)
        /\ last_timestamp' = timestamp
        /\ last_embedding' =
               IF inp.embedding # NoEmbedding THEN inp.embedding
               ELSE IF segment THEN NoEmbedding
               ELSE last_embedding
        /\ metrics' =
               [metrics EXCEPT
                   !.commitments_made = @ + (IF promised THEN 1 ELSE 0),
                   !.open_loops_created =
                       @ + (IF open_loop.found /\ open_loop.text # "" THEN 1 ELSE 0),
                   !.turns_processed = @ + 1,
                   !.tokens_per_turn = Append(@, EstimateTokens(inp.user \o inp.pet))]
        /\ next_id' = event_id + (IF segment THEN 1 ELSE 0)
        /\ used' = [used EXCEPT !.turns = @ + 1]
        /\ last_op' = "process_turn"
        /\ UNCHANGED <<now, firestore_client>>

\* index of the first commitment with this id, 0 if there is none
FindCommitment(cache, commitment_id) ==
    LET Hits == {i \in 1..Len(cache) : cache[i].commitment_id = commitment_id}
    IN  IF Hits = {} THEN 0 ELSE CHOOSE i \in Hits : \A k \in Hits : i <= k

\* AdvancedMemoryManager.mark_commitment_done
MarkCommitmentDone(commitment_id) ==
    LET k == FindCommitment(commitments_cache, commitment_id)
    IN  /\ used' = [used EXCEPT !.marks = @ + 1]
        /\ commitments_cache' =
               IF k > 0 THEN [commitments_cache EXCEPT ![k].status = "done"]
               ELSE commitments_cache
        /\ metrics' =
               IF k > 0 THEN [metrics EXCEPT !.commitments_fulfilled = @ + 1]
               ELSE metrics
        /\ fs_commitments' =
               IF k > 0 /\ firestore_client
               THEN {IF d.id = commitment_id
                     THEN [d EXCEPT !.data = [@ EXCEPT !.status = "done"]]
                     ELSE d : d \in fs_commitments}
               ELSE fs_commitments
        /\ last_op' = "mark_commitment_done"
        /\ UNCHANGED <<now, next_id, firestore_client, fs_events, fs_semantic,
                       session_turns, current_turns, last_embedding, last_timestamp,
                       events_cache, semantic_cache>>

\* a sweep that drops the last reactivation time instead of the first
SweepCommitmentDropLast(c, t) ==
    IF /\ c.status = "active"
       /\ c.reactivation_schedule # <<>>
       /\ c.reactivation_schedule[1] <= t
    THEN [c EXCEPT !.reactivation_schedule = SubSeq(@, 1, Len(@) - 1)]
    ELSE c

\* the reactivation sweep of consolidate_session at time t
SweepCommitment(c, t) ==
    IF /\ c.status = "active"
       /\ c.reactivation_schedule # <<>>
       /\ c.reactivation_schedule[1] <= t
    THEN [c EXCEPT !.reactivation_schedule = Tail(@)]
    ELSE c

\* a consolidate_session that does not return early from a session without turns
ConsolidateSessionAlways ==
    LET closing == current_turns # <<>>
        created == create_event(current_turns, next_id)
        event   == [created EXCEPT !.salience =
                       calculate_salience(now - created.time_range[2], 1, TRUE, 0, FALSE)]
    IN  /\ last_op' = "consolidate_session"
        /\ events_cache' =
               IF closing THEN CacheAfterSaveEvent(events_cache, event, now)
               ELSE events_cache
        /\ fs_events' =
               IF closing /\ firestore_client
               THEN SetDoc(fs_events, next_id, EventRecord_to_dict(event))
               ELSE fs_events
        /\ next_id' = next_id + (IF closing THEN 1 ELSE 0)
        /\ current_turns' = <<>>
        /\ last_embedding' = IF closing THEN NoEmbedding ELSE last_embedding
        /\ last_timestamp' = IF closing THEN NoTime ELSE last_timestamp
        /\ commitments_cache' =
               [i \in 1..Len(commitments_cache) |->
                   SweepCommitment(commitments_cache[i], now)]
        /\ session_turns' = <<>>
        /\ UNCHANGED <<now, firestore_client, fs_commitments, fs_semantic,
                       semantic_cache, metrics, used>>

\* AdvancedMemoryManager.consolidate_session
ConsolidateSession ==
    LET closing == current_turns # <<>>
        created == create_event(current_turns, next_id)
        event   == [created EXCEPT !.salience =
                       calculate_salience(now - created.time_range[2], 1, TRUE, 0, FALSE)]
    IN  /\ last_op' = "consolidate_session"
        /\ UNCHANGED used
        /\ IF session_turns = <<>>
           THEN UNCHANGED <<now, next_id, firestore_client, fs_events, fs_commitments,
                            fs_semantic, session_turns, current_turns, last_embedding,
                            last_timestamp, events_cache, commitments_cache,
                            semantic_cache, metrics>>
           ELSE /\ events_cache' =
                       IF closing THEN CacheAfterSaveEvent(events_cache, event, now)
                       ELSE events_cache
                /\ fs_events' =
                       IF closing /\ firestore_client
                       THEN SetDoc(fs_events, next_id, EventRecord_to_dict(event))
                       ELSE fs_events
                /\ next_id' = next_id + (IF closing THEN 1 ELSE 0)
                /\ current_turns' = <<>>
                /\ last_embedding' = IF closing THEN NoEmbedding ELSE last_embedding
                /\ last_timestamp' = IF closing THEN NoTime ELSE last_timestamp
                /\ commitments_cache' =
                       [i \in 1..Len(commitments_cache) |->
                           SweepCommitment(commitments_cache[i], now)]
                /\ session_turns' = <<>>
                /\ UNCHANGED <<now, firestore_client, fs_commitments, fs_semantic,
                               semantic_cache, metrics>>

\* a new AdvancedMemoryManager for the same user (_load_from_firestore)
Restart ==
    /\ used' = [used EXCEPT !.restarts = @ + 1]
    /\ last_op' = "restart"
    /\ session_turns' = <<>>
    /\ current_turns' = <<>>
    /\ last_embedding' = NoEmbedding
    /\ last_timestamp' = NoTime
    /\ metrics' = NoMetrics
    /\ IF firestore_client
       THEN LET cutoff == now - EventRetentionDays * Day
                Data(q) == [i \in 1..Len(q) |-> q[i].data]
                Recent(e) == e.time_range[2] >= cutoff
            IN  \E qe \in StreamOrders(fs_events),
                   qc \in StreamOrders({d \in fs_commitments : d.data.status = "active"}),
                   qs \in StreamOrders(fs_semantic) :
                    /\ events_cache' =
                           SelectSeq(MapSeq(Data(qe), EventRecord_from_dict), Recent)
                    /\ commitments_cache' = MapSeq(Data(qc), Commitment_from_dict)
                    /\ semantic_cache' = MapSeq(Data(qs), SemanticFact_from_dict)
       ELSE /\ events_cache' = <<>>
            /\ commitments_cache' = <<>>
            /\ semantic_cache' = <<>>
    /\ UNCHANGED <<now, next_id, firestore_client, fs_events, fs_commitments, fs_semantic>>

Queries == {"name", "Conversa de ontem"}

\* str.split(): the maximal runs of non-blank characters
RECURSIVE Split(_)
Split(s) ==
    LET i == SkipSpaces(s, 1)
        RECURSIVE WordEnd(_)
        WordEnd(j) == IF j <= Len(s) /\ ~IsSpace(Ch(s, j)) THEN WordEnd(j + 1) ELSE j
        e == WordEnd(i)
    IN  IF i > Len(s) THEN <<>>
        ELSE <<SubSeq(s, i, e - 1)>> \o Split(SubSeq(s, e, Len(s)))

\* query.lower().split() of the queries
QueryWords == [query \in Queries |-> Split(Lower(query))]

\* any(word in text for word in query.lower().split())
AnyWordIn(query, text) ==
    LET words == QueryWords[query]
    IN  \E k \in 1..Len(words) : Contains(text, words[k])

\* list.sort(key=score, reverse=True) over items whose scores are given:
\* descending and stable
SortByScore(items, scores) ==
    LET n == Len(items)
        Before(j, i) == scores[j] > scores[i] \/ (scores[j] = scores[i] /\ j < i)
        Rank(i) == 1 + Cardinality({j \in 1..n : Before(j, i)})
    IN  [r \in 1..n |-> items[CHOOSE i \in 1..n : Rank(i) = r]]

FactText(fact) == fact.triple[1] \o " " \o fact.triple[2] \o " " \o fact.triple[3]

\* the score _retrieve_semantic_facts gives a fact; corrections carry no embeddings
FactScore(fact, query, t) ==
    fact.importance
        + (3 * ExpNeg(t - fact.last_reinforced, 7 * Day)) \div 10
        + (IF AnyWordIn(query, Lower(FactText(fact))) THEN (4 * Scale) \div 10 ELSE 0)

\* AdvancedMemoryManager._retrieve_semantic_facts
RetrieveSemanticFacts(cache, query, top_k, t) ==
    LET Score(fact) == FactScore(fact, query, t)
    IN  Prefix(SortByScore(cache, MapSeq(cache, Score)), top_k)

\* the score _retrieve_events gives an event; events built without a summarizer
\* carry no embeddings
EventScore(event, query, t) ==
    event.salience
        + (4 * ExpNeg(t - event.time_range[2], 3 * Day)) \div 10
        + (IF AnyWordIn(query, Lower(event.title \o " " \o event.summary))
           THEN (3 * Scale) \div 10 ELSE 0)

\* AdvancedMemoryManager._retrieve_events
RetrieveEvents(cache, query, top_k, t) ==
    LET Recent(e) == e.time_range[2] >= t - 14 * Day
        recent    == SelectSeq(cache, Recent)
        pool      == IF recent # <<>> THEN recent
                     ELSE SubSeq(cache, Max(1, Len(cache) - 9), Len(cache))
        Score(event) == EventScore(event, query, t)
    IN  Prefix(SortByScore(pool, MapSeq(pool, Score)), top_k)

\* a string is placed however little budget is left
FitsAlways(token_budget, tokens) == TRUE

\* `if token_budget - tokens > 0`
Fits(token_budget, tokens) == token_budget - tokens > 0

\* one tier of retrieve_context: the strings that fit are placed in order, the
\* others are passed over
RECURSIVE PlaceTier(_, _)
PlaceTier(strings, token_budget) ==
    IF strings = <<>> THEN [placed |-> <<>>, token_budget |-> token_budget]
    ELSE LET tokens == EstimateTokens(Head(strings))
             fits   == Fits(token_budget, tokens)
             rest   == PlaceTier(Tail(strings),
                                 IF fits THEN token_budget - tokens ELSE token_budget)
         IN  [placed |-> (IF fits THEN <<Head(strings)>> ELSE <<>>) \o rest.placed,
              token_budget |-> rest.token_budget]

CommitmentStr(commitment) == "Compromisso: " \o commitment.desc

EventStr(event) == "Evento: " \o event.title \o " - " \o event.summary

\* the strings of a retrieve_context that lists the commitments whatever their
\* status
CandidatesWithDone(query) ==
    LET relevant_facts  == RetrieveSemanticFacts(semantic_cache, query, 10, now)
        relevant_events == RetrieveEvents(events_cache, query, 3, now)
    IN  [commitments    |-> MapSeq(Prefix(commitments_cache, 5), CommitmentStr),
         semantic_facts |-> MapSeq(relevant_facts, FactText),
         recent_events  |-> MapSeq(Prefix(relevant_events, 2), EventStr)]

\* the strings retrieve_context goes through for a query, tier by tier
Candidates(query) ==
    LET Active(c) == c.status = "active"
        active_commitments == SelectSeq(commitments_cache, Active)
        relevant_facts  == RetrieveSemanticFacts(semantic_cache, query, 10, now)
        relevant_events == RetrieveEvents(events_cache, query, 3, now)
    IN  [commitments    |-> MapSeq(Prefix(active_commitments, 5), CommitmentStr),
         semantic_facts |-> MapSeq(relevant_facts, FactText),
         recent_events  |-> MapSeq(Prefix(relevant_events, 2), EventStr)]

\* the context retrieve_context fills from them within max_tokens
FillContext(candidates, max_tokens) ==
    LET tier1 == PlaceTier(candidates.commitments, max_tokens)
        tier2 == PlaceTier(candidates.semantic_facts, tier1.token_budget)
        tier3 == PlaceTier(candidates.recent_events, tier2.token_budget)
    IN  [commitments      |-> tier1.placed,
         semantic_facts   |-> tier2.placed,
         recent_events    |-> tier3.placed,
         estimated_tokens |-> max_tokens - tier3.token_budget]

\* AdvancedMemoryManager.retrieve_context
retrieve_context(query, max_tokens) == FillContext(Candidates(query), max_tokens)

\* the ids mark_commitment_done is called with: the known ones and an unknown one
CommitmentIds == {commitments_cache[i].commitment_id : i \in 1..Len(commitments_cache)} \cup {0}

-----------------------------------------------------------------------------
(* MemoryStore, AutobiographicalMemory and MemoryRetriever: the memory of    *)
(* one pet and the context retrieved from it for a prompt                   *)

VARIABLES
    episodic,          \* MemoryStore.episodic, oldest first
    semantic,          \* MemoryStore.semantic: key -> [weight, last_reinforced, access_count]
    abm_items,         \* AutobiographicalMemory.items
    retrieved,         \* what the last MemoryRetriever.retrieve gave back
    mem_log            \* how many episodes, claims, consolidations, retrievals so
                       \* far, and the threshold of the last consolidation

mem_vars == <<episodic, semantic, abm_items, retrieved, mem_log>>

\* deque(maxlen=100)
EpisodicMaxLen == 100

MaxEpisodes == 2

MaxClaims == 1

MaxConsolidations == 2

MaxRetrievals == 1

\* the largest token_budget a MemoryRetriever is built with
MaxTokenBudget == 6

\* the (text, salience, importance_score) an episode is added with
EpisodeInputs ==
    { [text |-> "oi", salience |-> Scale \div 2, importance_score |-> Scale \div 2],
      [text |-> "Gosto de cafe", salience |-> Scale \div 2, importance_score |-> Scale],
      [text |-> "gosto de cafe ", salience |-> (9 * Scale) \div 10,
       importance_score |-> Scale \div 2] }

\* the thresholds consolidate is called with: its default and the server's
Thresholds == {(6 * Scale) \div 10, (4 * Scale) \div 10}

\* the (text, type, importance) a claim is added with
ClaimInputs ==
    { [text |-> "vou sempre te ouvir", claim_type |-> "C&C-PERSONA",
       importance |-> Scale \div 2],
      [text |-> "eu sou um pet virtual", claim_type |-> "C-PET",
       importance |-> Scale \div 2] }

NoContext ==
    [pet_canon |-> "", commitments |-> <<>>, semantic_facts |-> <<>>,
     episodic_event |-> "", echo_trace |-> "", total_tokens_estimate |-> 0]

\* MemoryRetriever._estimate_tokens
estimate_tokens(text) == IF text = "" THEN 0 ELSE Max(1, Len(text) \div 4)

\* MemoryRetriever._truncate_to_tokens
truncate_to_tokens(text, max_tokens) ==
    LET max_chars  == max_tokens * 4
        truncated  == Prefix(text, max_chars)
        last_space == RFindSpace(truncated)
    IN  IF text = "" THEN ""
        ELSE IF Len(text) <= max_chars THEN text
        ELSE (IF last_space > 0 THEN Prefix(truncated, last_space) ELSE truncated) \o "..."

\* AutobiographicalMemory.get_active_items
get_active_items(items, item_type, min_importance) ==
    LET Wanted(item) == /\ item.status = "active"
                        /\ item.importance >= min_importance
                        /\ item.type = item_type
        wanted == SelectSeq(items, Wanted)
        Importance(item) == item.importance
    IN  SortByScore(wanted, MapSeq(wanted, Importance))

\* a _find_similar_claim that compares the texts as they are written
FindSimilarClaimSameCase(items, text, claim_type) ==
    LET Hits == {i \in 1..Len(items) :
                    /\ items[i].status = "active"
                    /\ items[i].type = claim_type
                    /\ \/ Contains(items[i].canonical_text, text)
                       \/ Contains(text, items[i].canonical_text)}
    IN  IF Hits = {} THEN 0 ELSE CHOOSE i \in Hits : \A k \in Hits : i <= k

\* AutobiographicalMemory._find_similar_claim: index of the first hit, 0 if none
FindSimilarClaim(items, text, claim_type) ==
    LET Hits == {i \in 1..Len(items) :
                    /\ items[i].status = "active"
                    /\ items[i].type = claim_type
                    /\ \/ Contains(Lower(items[i].canonical_text), Lower(text))
                       \/ Contains(Lower(text), Lower(items[i].canonical_text))}
    IN  IF Hits = {} THEN 0 ELSE CHOOSE i \in Hits : \A k \in Hits : i <= k

\* the tier of retrieve that takes items in order until one does not fit
RECURSIVE TakeWhileFits(_, _)
TakeWhileFits(texts, remaining_tokens) ==
    IF texts = <<>> \/ estimate_tokens(Head(texts)) > remaining_tokens
    THEN [taken |-> <<>>, remaining_tokens |-> remaining_tokens]
    ELSE LET rest == TakeWhileFits(Tail(texts),
                                   remaining_tokens - estimate_tokens(Head(texts)))
         IN  [taken |-> <<Head(texts)>> \o rest.taken,
              remaining_tokens |-> rest.remaining_tokens]

\* the episode retrieve picks: the greatest (importance_score, timestamp)
TopEpisode(episodes) ==
    CHOOSE m \in {episodes[i] : i \in 1..Len(episodes)} :
        \A i \in 1..Len(episodes) :
            \/ episodes[i].importance_score < m.importance_score
            \/ /\ episodes[i].importance_score = m.importance_score
               /\ episodes[i].timestamp <= m.timestamp

\* MemoryRetriever.retrieve on a MemoryStore, which has no pet_canon and no
\* echo_trace attribute; the call is only made with an empty semantic memory
retrieve(token_budget) ==
    LET CanonicalText(item) == item.canonical_text
        cc_items == get_active_items(abm_items, "C&C-PERSONA", (4 * Scale) \div 10)
        tier2 == TakeWhileFits(MapSeq(Prefix(cc_items, 5), CanonicalText), token_budget)
        event == TopEpisode(episodic)
        event_summary == event.kind \o ": " \o event.text
        fits == estimate_tokens(event_summary) <= tier2.remaining_tokens
        episodic_event ==
            IF episodic = <<>> THEN ""
            ELSE IF fits THEN event_summary
            ELSE truncate_to_tokens(event_summary, tier2.remaining_tokens)
        remaining_tokens ==
            IF episodic = <<>> THEN tier2.remaining_tokens
            ELSE IF fits THEN tier2.remaining_tokens - estimate_tokens(event_summary)
            ELSE 0
    IN  [NoContext EXCEPT !.commitments = tier2.taken,
                          !.episodic_event = episodic_event,
                          !.total_tokens_estimate = token_budget - remaining_tokens]

\* a dict with no key
EmptyDict == [key \in {} |-> 0]

\* d[key] = value
DictSet(d, key, value) ==
    [k \in DOMAIN d \cup {key} |-> IF k = key THEN value ELSE d[k]]

\* MemoryStore() of a new pet, and no context retrieved yet
MemInit ==
    /\ episodic = <<>>
    /\ semantic = EmptyDict
    /\ abm_items = <<>>
    /\ retrieved = [outcome |-> "none", token_budget |-> 0, context |-> NoContext]
    /\ mem_log = [episodes |-> 0, claims |-> 0, consolidations |-> 0, retrievals |-> 0,
                  threshold |-> 0]

\* an add_episode whose buffer evicts only once it holds more than its maxlen
AddEpisodeOverfull(inp) ==
    LET item == [kind |-> "episode", text |-> inp.text, salience |-> inp.salience,
                 importance_score |-> inp.importance_score, timestamp |-> now]
        kept == IF Len(episodic) > EpisodicMaxLen THEN Tail(episodic) ELSE episodic
    IN  /\ episodic' = Append(kept, item)
        /\ now' = now + 1
        /\ mem_log' = [mem_log EXCEPT !.episodes = @ + 1]
        /\ last_op' = "add_episode"
        /\ UNCHANGED <<semantic, abm_items, retrieved>>

\* MemoryStore.add_episode; the clock moves on
AddEpisode(inp) ==
    LET item == [kind |-> "episode", text |-> inp.text, salience |-> inp.salience,
                 importance_score |-> inp.importance_score, timestamp |-> now]
        kept == IF Len(episodic) >= EpisodicMaxLen THEN Tail(episodic) ELSE episodic
    IN  /\ episodic' = Append(kept, item)
        /\ now' = now + 1
        /\ mem_log' = [mem_log EXCEPT !.episodes = @ + 1]
        /\ last_op' = "add_episode"
        /\ UNCHANGED <<semantic, abm_items, retrieved>>

\* a combined score with the weights of salience and importance exchanged
CombinedScoreSwapped(m) == (6 * m.salience + 4 * m.importance_score) \div 10

\* combined_score of an episode
CombinedScore(m) == (4 * m.salience + 6 * m.importance_score) \div 10

\* `m.salience *= 0.1`
Promote(m) == [m EXCEPT !.salience = @ \div 10]

\* the loop of MemoryStore.consolidate from episode i on
RECURSIVE ConsolidateFrom(_, _, _, _, _)
ConsolidateFrom(i, episodes, facts, threshold, t) ==
    IF i > Len(episodes) THEN [episodic |-> episodes, semantic |-> facts]
    ELSE LET m == episodes[i]
             combined_score == CombinedScore(m)
             key == Strip(Lower(m.text))
             entry ==
                 IF key \in DOMAIN facts
                 THEN [weight |-> Min(Scale, facts[key].weight + (3 * combined_score) \div 10),
                       last_reinforced |-> t,
                       access_count |-> facts[key].access_count + 1]
                 ELSE [weight |-> combined_score, last_reinforced |-> t, access_count |-> 1]
         IN  IF combined_score >= threshold
             THEN ConsolidateFrom(i + 1, [episodes EXCEPT ![i] = Promote(m)],
                                  DictSet(facts, key, entry), threshold, t)
             ELSE ConsolidateFrom(i + 1, episodes, facts, threshold, t)

\* MemoryStore.consolidate
Consolidate(threshold) ==
    LET after == ConsolidateFrom(1, episodic, semantic, threshold, now)
    IN  /\ episodic' = after.episodic
        /\ semantic' = after.semantic
        /\ mem_log' = [mem_log EXCEPT !.consolidations = @ + 1, !.threshold = threshold]
        /\ last_op' = "consolidate"
        /\ UNCHANGED <<now, abm_items, retrieved>>

\* AutobiographicalMemory.add_claim
AddClaim(inp) ==
    LET text == IF Len(inp.text) > 140 THEN Prefix(inp.text, 137) \o "..." ELSE inp.text
        k    == FindSimilarClaim(abm_items, text, inp.claim_type)
        item == [type |-> inp.claim_type, canonical_text |-> text,
                 importance |-> inp.importance, status |-> "active"]
    IN  /\ abm_items' =
               IF k > 0
               THEN [abm_items EXCEPT ![k].importance = Min(Scale, @ + Scale \div 10)]
               ELSE Append(abm_items, item)
        /\ mem_log' = [mem_log EXCEPT !.claims = @ + 1]
        /\ last_op' = "add_claim"
        /\ UNCHANGED <<now, episodic, semantic, retrieved>>

\* MemoryRetriever(token_budget).retrieve(pet_state, user_message); with facts in
\* the semantic memory the call raises AttributeError (get_semantic_facts returns
\* a list, retrieve asks it for .items()) and gives no context back
Retrieve(token_budget) ==
    /\ retrieved' =
           IF DOMAIN semantic # {}
           THEN [outcome |-> "raised", token_budget |-> token_budget, context |-> NoContext]
           ELSE [outcome |-> "returned", token_budget |-> token_budget,
                 context |-> retrieve(token_budget)]
    /\ mem_log' = [mem_log EXCEPT !.retrievals = @ + 1]
    /\ last_op' = "retrieve"
    /\ UNCHANGED <<now, episodic, semantic, abm_items>>

-----------------------------------------------------------------------------
(* The webhook server: handle_webhook over get_pet_data / save_pet_data.     *)
(* A pet's state is kept as far as its memory goes (episodic, semantic);     *)
(* requests carry a text message.                                           *)

VARIABLES
    use_enhanced_memory,   \* USE_ENHANCED_MEMORY
    pets,                  \* the stored pets: user_id -> the dict save_pet_data wrote
    requests,              \* the webhook requests received, with each handler's place
    running                \* the request whose handler has the event loop, 0 if none

server_vars == <<use_enhanced_memory, pets, requests, running>>

MaxRequests == 2

Users == {"u1", "u2"}

Messages == {"oi", "Gosto de cafe"}

NewPetState == [episodic |-> <<>>, semantic |-> EmptyDict]

\* pet_state_to_dict, the memory part
pet_state_to_dict(state) ==
    LET Episode(m) == [kind |-> m.kind, text |-> m.text, salience |-> m.salience,
                       timestamp |-> IsoFormat(m.timestamp)]
    IN  [episodic |-> MapSeq(state.episodic, Episode),
         semantic |-> [key \in DOMAIN state.semantic |->
                          <<state.semantic[key].weight,
                            IsoFormat(state.semantic[key].last_reinforced),
                            state.semantic[key].access_count>>]]

\* dict_to_pet_state at time t, the memory part: episodes are added again with
\* add_episode(text, salience)
dict_to_pet_state(data, t) ==
    LET Episode(ep) == [kind |-> "episode", text |-> ep.text, salience |-> ep.salience,
                        importance_score |-> Scale \div 2, timestamp |-> t]
    IN  [episodic |-> MapSeq(data.episodic, Episode),
         semantic |-> [key \in DOMAIN data.semantic |->
                          [weight |-> data.semantic[key][1],
                           last_reinforced |-> FromIsoFormat(data.semantic[key][2]),
                           access_count |-> data.semantic[key][3]]]]

\* get_pet_data
get_pet_data(user_id) ==
    IF user_id \in DOMAIN pets THEN dict_to_pet_state(pets[user_id], now) ELSE NewPetState

\* analyze_conversation_importance without an AI model: the score by keyword
FallbackImportance(text) ==
    LET lower == Lower(text)
        HasAny(words) == \E w \in words : Contains(lower, w)
    IN  IF HasAny({"nome", "chamo", "sou", "tenho", "anos", "trabalho", "moro"})
        THEN (9 * Scale) \div 10
        ELSE IF HasAny({"gosto", "adoro", "amo", "odeio", "prefiro"}) THEN (8 * Scale) \div 10
        ELSE IF Contains(text, "?") THEN (6 * Scale) \div 10
        ELSE Scale \div 2

ServerStart ==
    /\ pets = EmptyDict
    /\ requests = <<>>
    /\ running = 0

ServerInit == use_enhanced_memory \in BOOLEAN /\ ServerStart

\* a POST /webhook arrives
Receive(user_id, message) ==
    /\ requests' = Append(requests, [user_id |-> user_id, message |-> message,
                                     pc |-> "received", state |-> NewPetState])
    /\ last_op' = "receive"
    /\ UNCHANGED <<now, use_enhanced_memory, pets, running>>

\* the event loop starts a handler when no other holds it (handle_webhook has
\* no await, so a started handler runs to its end): get_pet_data
Load(r) ==
    /\ running = 0
    /\ requests[r].pc = "received"
    /\ running' = r
    /\ requests' = [requests EXCEPT ![r].pc = "loaded",
                                    ![r].state = get_pet_data(requests[r].user_id)]
    /\ last_op' = "load"
    /\ UNCHANGED <<now, use_enhanced_memory, pets>>

\* pet.user_message(message): the episode of the message, with its importance
UserMessage(r) ==
    LET item == [kind |-> "episode", text |-> requests[r].message,
                 salience |-> Scale \div 2,
                 importance_score |-> FallbackImportance(requests[r].message),
                 timestamp |-> now]
    IN  /\ running = r
        /\ requests[r].pc = "loaded"
        /\ requests' = [requests EXCEPT ![r].pc = "messaged",
                                        ![r].state.episodic = Append(@, item)]
        /\ last_op' = "user_message"
        /\ UNCHANGED <<now, use_enhanced_memory, pets, running>>

\* pet.pet_response() and what follows it up to the save.  With enhanced memory
\* the loaded state holds a MemoryStore, pet_response calls
\* process_conversation_turn on it and the AttributeError ends the request;
\* without it, consolidate(threshold=0.4) runs or not (random.random() < 0.3)
PetResponse(r) ==
    /\ running = r
    /\ requests[r].pc = "messaged"
    /\ last_op' = "pet_response"
    /\ IF use_enhanced_memory
       THEN /\ requests' = [requests EXCEPT ![r].pc = "failed"]
            /\ running' = 0
       ELSE /\ \E consolidates \in BOOLEAN :
                  LET state == requests[r].state
                      after == ConsolidateFrom(1, state.episodic, state.semantic,
                                               (4 * Scale) \div 10, now)
                  IN  requests' = [requests EXCEPT
                                      ![r].pc = "replied",
                                      ![r].state = IF consolidates THEN after ELSE state]
            /\ UNCHANGED running
    /\ UNCHANGED <<now, use_enhanced_memory, pets>>

\* save_pet_data, and the handler returns
Save(r) ==
    /\ running = r
    /\ requests[r].pc = "replied"
    /\ pets' = DictSet(pets, requests[r].user_id, pet_state_to_dict(requests[r].state))
    /\ requests' = [requests EXCEPT ![r].pc = "done"]
    /\ running' = 0
    /\ last_op' = "save"
    /\ UNCHANGED <<now, use_enhanced_memory>>

-----------------------------------------------------------------------------
(* Several users: one AdvancedMemoryManager per user over one Firestore,    *)
(* and the pets save_pet_data stores per user                               *)

VARIABLES
    managers,   \* user_id -> the caches, session and metrics of that user's manager
    store,      \* the Firestore documents of all users: [path, id, data]
    acting,     \* the user whose operation ran last, "" at the start
    ops         \* the number of operations run

users_vars == <<managers, store, acting, ops>>

MaxUserOps == 3

\* the turns the users' managers are given
UserTurnInputs == {inp \in TurnInputs : inp.user \in {"meu nome eh ana", "prefiro cafe"}}

\* the states save_pet_data is given
SavedStates ==
    { NewPetState,
      [NewPetState EXCEPT !.episodic =
          <<[kind |-> "episode", text |-> "oi", salience |-> Scale \div 2,
             importance_score |-> Scale \div 2, timestamp |-> 0]>>] }

\* f"users/{self.user_id}/memories/{name}"
CollectionPath(user_id, name) == "users/" \o user_id \o "/memories/" \o name

\* a store key that is the same for every user
StoreKeyShared(user_id) == "u1"

\* the key save_pet_data stores a user's pet under
StoreKey(user_id) == user_id

\* document(id).set(data) in the collection at a path
SetDocAt(docs, path, id, data) ==
    {d \in docs : ~(d.path = path /\ d.id = id)}
        \cup {[path |-> path, id |-> id, data |-> data]}

\* AdvancedMemoryManager(user_id, client) on an empty store
NewManager ==
    [session_turns |-> <<>>, current_turns |-> <<>>, last_embedding |-> NoEmbedding,
     last_timestamp |-> NoTime, events_cache |-> <<>>, commitments_cache |-> <<>>,
     semantic_cache |-> <<>>, metrics |-> NoMetrics]

UsersStart ==
    /\ managers = [user_id \in Users |-> NewManager]
    /\ store = {}
    /\ acting = ""
    /\ ops = 0

\* process_turn on the manager of user_id
UserProcessTurn(user_id, inp) ==
    \E detected \in {Detected[inp]}, m \in {managers[user_id]} :
    \E segment \in {should_segment(m.current_turns, m.last_embedding, m.last_timestamp,
                                   inp.embedding, now)} :
    LET turn_data  == [user |-> inp.user, pet |-> inp.pet, timestamp |-> now,
                       embedding |-> inp.embedding]
        commitment == detected.commitment
        promised   == commitment.found /\ commitment.text # ""
        correction == detected.correction
        open_loop  == detected.open_loop
        fact_id    == next_id + (IF promised THEN 1 ELSE 0)
        event_id   == fact_id + (IF correction.found THEN 1 ELSE 0)
        made       == NewCommitment(next_id, commitment.text, now)
        fact       == NewCorrectionFact(fact_id, correction, now)
        event      == create_event(m.current_turns, event_id)
        docs1      == IF promised
                      THEN SetDocAt(store, CollectionPath(user_id, "commitments"),
                                    next_id, Commitment_to_dict(made))
                      ELSE store
        docs2      == IF correction.found
                      THEN SetDocAt(docs1, CollectionPath(user_id, "semantic"),
                                    fact_id, SemanticFact_to_dict(fact))
                      ELSE docs1
    IN  /\ managers' = [managers EXCEPT ![user_id] =
               [session_turns |-> Append(m.session_turns, turn_data),
                current_turns |->
                    Append(IF segment THEN <<>> ELSE m.current_turns, turn_data),
                last_embedding |->
                    IF inp.embedding # NoEmbedding THEN inp.embedding
                    ELSE IF segment THEN NoEmbedding
                    ELSE m.last_embedding,
                last_timestamp |-> now,
                events_cache |->
                    IF segment THEN CacheAfterSaveEvent(m.events_cache, event, now)
                    ELSE m.events_cache,
                commitments_cache |->
                    IF promised THEN Append(m.commitments_cache, made)
                    ELSE m.commitments_cache,
                semantic_cache |->
                    IF correction.found THEN CacheAfterCorrection(m.semantic_cache, fact)
                    ELSE m.semantic_cache,
                metrics |->
                    [m.metrics EXCEPT
                        !.commitments_made = @ + (IF promised THEN 1 ELSE 0),
                        !.open_loops_created =
                            @ + (IF open_loop.found /\ open_loop.text # "" THEN 1 ELSE 0),
                        !.turns_processed = @ + 1,
                        !.tokens_per_turn = Append(@, EstimateTokens(inp.user \o inp.pet))]]]
        /\ store' =
               IF segment
               THEN SetDocAt(docs2, CollectionPath(user_id, "events"), event_id,
                             EventRecord_to_dict(event))
               ELSE docs2
        /\ next_id' = event_id + (IF segment THEN 1 ELSE 0)
        /\ acting' = user_id
        /\ ops' = ops + 1
        /\ last_op' = "process_turn"
        /\ UNCHANGED <<now, pets>>

\* mark_commitment_done on the manager of user_id
UserMarkCommitmentDone(user_id, commitment_id) ==
    LET m == managers[user_id]
        k == FindCommitment(m.commitments_cache, commitment_id)
        path == CollectionPath(user_id, "commitments")
    IN  /\ managers' =
               IF k > 0
               THEN [managers EXCEPT
                        ![user_id].commitments_cache[k].status = "done",
                        ![user_id].metrics.commitments_fulfilled = @ + 1]
               ELSE managers
        /\ store' =
               IF k > 0
               THEN {IF d.path = path /\ d.id = commitment_id
                     THEN [d EXCEPT !.data = [@ EXCEPT !.status = "done"]]
                     ELSE d : d \in store}
               ELSE store
        /\ acting' = user_id
        /\ ops' = ops + 1
        /\ last_op' = "mark_commitment_done"
        /\ UNCHANGED <<now, next_id, pets>>

\* consolidate_session on the manager of user_id
UserConsolidateSession(user_id) ==
    LET m == managers[user_id]
        closing == m.current_turns # <<>>
        created == create_event(m.current_turns, next_id)
        event   == [created EXCEPT !.salience =
                       calculate_salience(now - created.time_range[2], 1, TRUE, 0, FALSE)]
    IN  /\ acting' = user_id
        /\ ops' = ops + 1
        /\ last_op' = "consolidate_session"
        /\ UNCHANGED <<now, pets>>
        /\ IF m.session_turns = <<>>
           THEN UNCHANGED <<managers, store, next_id>>
           ELSE /\ managers' = [managers EXCEPT ![user_id] =
                       [m EXCEPT
                           !.events_cache =
                               IF closing THEN CacheAfterSaveEvent(@, event, now) ELSE @,
                           !.current_turns = <<>>,
                           !.last_embedding = IF closing THEN NoEmbedding ELSE @,
                           !.last_timestamp = IF closing THEN NoTime ELSE @,
                           !.commitments_cache =
                               [i \in 1..Len(m.commitments_cache) |->
                                   SweepCommitment(m.commitments_cache[i], now)],
                           !.session_turns = <<>>]]
                /\ store' =
                       IF closing
                       THEN SetDocAt(store, CollectionPath(user_id, "events"), next_id,
                                     EventRecord_to_dict(event))
                       ELSE store
                /\ next_id' = next_id + (IF closing THEN 1 ELSE 0)

\* save_pet_data(user_id, state)
SavePetData(user_id, state) ==
    /\ pets' = DictSet(pets, StoreKey(user_id), pet_state_to_dict(state))
    /\ acting' = user_id
    /\ ops' = ops + 1
    /\ last_op' = "save_pet_data"
    /\ UNCHANGED <<now, next_id, managers, store>>

\* the ids mark_commitment_done is called with on a user's manager
UserCommitmentIds(user_id) ==
    {managers[user_id].commitments_cache[i].commitment_id :
        i \in 1..Len(managers[user_id].commitments_cache)} \cup {0}

-----------------------------------------------------------------------------
(* AutobiographicalMemory and PetCanon: what the pet has claimed about     *)
(* itself, and the identity consolidated from those claims.                *)

VARIABLES
    abm,        \* AutobiographicalMemory.items
    canon,      \* the PetCanon
    utcnow,     \* what the next datetime.utcnow() returns
    result,     \* the last operation on them and what it returned
    calls       \* how many add_claim, revise_claim, update_from_abm calls so far

canon_vars == <<abm, canon, utcnow, result, calls>>

\* how many claims, revisions and canon updates are explored
AbmClaims == 3

AbmRevisions == 1

CanonClaims == 4

CanonRevisions == 1

CanonUpdates == 2

\* a text of 151 characters that names "eu posso ler" after the 137th
LongText ==
    "lorem ipsum dolor sit amet consectetur adipiscing elit sed do eiusmod tempor "
        \o "incididunt ut labore et dolore magna aliqua ut enim ad minim veniam quis "
        \o "eu posso ler"

\* add_claim(text, claim_type, source_event_id, importance): same text twice, a text
\* in other case, a text inside another, an importance near 1.0, a text over 140
AbmClaimInputs ==
    { [text |-> "Eu posso cantar", claim_type |-> "TOOLS", importance |-> Scale \div 2],
      [text |-> "eu posso CANTAR", claim_type |-> "TOOLS", importance |-> Scale \div 2],
      [text |-> "eu posso ler", claim_type |-> "TOOLS", importance |-> Scale \div 2],
      [text |-> "posso", claim_type |-> "TOOLS", importance |-> (95 * Scale) \div 100],
      [text |-> "posso", claim_type |-> "C-PET", importance |-> Scale \div 2],
      [text |-> LongText, claim_type |-> "TOOLS", importance |-> Scale \div 2] }

\* the claims a canon is consolidated from, in unaccented letters (stored texts with
\* accented letters do not stay intact in the model checker's state queue)
CanonClaimInputs ==
    { [text |-> "Eu posso cantar", claim_type |-> "TOOLS", importance |-> Scale \div 2],
      [text |-> "Eu posso ler.", claim_type |-> "TOOLS", importance |-> Scale \div 2],
      [text |-> "Sou um pet e eu posso rir", claim_type |-> "C-PET",
       importance |-> Scale \div 2],
      [text |-> "Eu posso ver", claim_type |-> "C-PET", importance |-> (8 * Scale) \div 10],
      [text |-> "evito dieta", claim_type |-> "POLICY", importance |-> Scale \div 2] }

\* revise_claim(old_text, new_text, reason, source_event_id)
RevisionInputs ==
    { [old_text |-> "posso cantar", new_text |-> "Eu posso nadar", reason |-> "aprendi"],
      [old_text |-> "posso ver", new_text |-> "Eu posso ouvir", reason |-> "mudei"] }

\* ABMItem(type, canonical_text, source_event_id, importance, stability) made at t
ABMItem(claim_type, text, importance, t) ==
    [type |-> claim_type, canonical_text |-> text, importance |-> importance,
     stability |-> (8 * Scale) \div 10, status |-> "active", created_at |-> t,
     last_verified |-> t, revision_reason |-> ""]

\* the text add_claim keeps of a text
Canonical(text) == IF Len(text) > 140 THEN Prefix(text, 137) \o "..." ELSE text

\* AutobiographicalMemory.add_claim with a stability, at t: the items afterwards
add_claim_stable(items, text, claim_type, importance, stability, t) ==
    LET similar == FindSimilarClaim(items, Canonical(text), claim_type)
    IN  IF similar > 0
        THEN [items EXCEPT ![similar].importance = Min(Scale, @ + Scale \div 10),
                           ![similar].last_verified = t]
        ELSE Append(items, [ABMItem(claim_type, Canonical(text), importance, t)
                                EXCEPT !.stability = stability])

\* AutobiographicalMemory.add_claim with the default stability
add_claim(items, text, claim_type, importance, t) ==
    add_claim_stable(items, text, claim_type, importance, (8 * Scale) \div 10, t)

\* the claim revise_claim finds for old_text: the index of the first hit, 0 if none
FindClaimToRevise(items, old_text) ==
    LET Hits == {i \in 1..Len(items) :
                    /\ items[i].status = "active"
                    /\ Contains(Lower(items[i].canonical_text), Lower(old_text))}
    IN  IF Hits = {} THEN 0 ELSE CHOOSE i \in Hits : \A k \in Hits : i <= k

\* a revise_claim whose new item takes the defaults of ABMItem
revise_claim_with_defaults(items, old_text, new_text, reason, t) ==
    LET old_item == FindClaimToRevise(items, old_text)
    IN  IF old_item = 0 THEN items
        ELSE Append([items EXCEPT ![old_item].status = "revised",
                                  ![old_item].revision_reason = reason],
                    ABMItem(items[old_item].type, new_text, Scale \div 2, t))

\* AutobiographicalMemory.revise_claim at t: the items afterwards
revise_claim(items, old_text, new_text, reason, t) ==
    LET old_item == FindClaimToRevise(items, old_text)
    IN  IF old_item = 0 THEN items
        ELSE Append([items EXCEPT ![old_item].status = "revised",
                                  ![old_item].revision_reason = reason],
                    [ABMItem(items[old_item].type, new_text,
                             items[old_item].importance, t)
                         EXCEPT !.stability = items[old_item].stability])

\* PetCanon() made at t
NewCanon(t) ==
    [role |-> "", capabilities |-> <<>>, limits |-> <<>>, style |-> "",
     principles |-> <<>>, commitments |-> <<>>, last_updated |-> t, version |-> 1]

\* PetCanon.needs_update
needs_update(c, items) ==
    LET New(item) == item.created_at > c.last_updated /\ item.status = "active"
        new_items == SelectSeq(items, New)
        High(item) == item.importance > (7 * Scale) \div 10
        Revised(item) == item.status = "revised" /\ item.last_verified > c.last_updated
    IN  \/ SelectSeq(new_items, High) # <<>>
        \/ Len(new_items) > 5
        \/ SelectSeq(items, Revised) # <<>>

\* str.find from position i on: where needle starts, 0 when it does not occur
Find(s, needle, i) ==
    LET At == {k \in i..(Len(s) + 1) : StartsAt(s, k, needle)}
    IN  IF At = {} THEN 0 ELSE CHOOSE k \in At : \A j \in At : k <= j

\* s.split(sep)[1] of a text that holds sep
SplitSecond(s, sep) ==
    LET start == Find(s, sep, 1) + Len(sep)
        next  == Find(s, sep, start)
    IN  SubSeq(s, start, IF next = 0 THEN Len(s) ELSE next - 1)

\* str.rstrip('.')
RECURSIVE RStripDots(_)
RStripDots(s) ==
    IF Len(s) > 0 /\ Ch(s, Len(s)) = "." THEN RStripDots(SubSeq(s, 1, Len(s) - 1)) ELSE s

\* the lists of a list of lists, one after the other
RECURSIVE Flatten(_)
Flatten(lists) == IF lists = <<>> THEN <<>> ELSE Head(lists) \o Flatten(Tail(lists))

\* what update_from_abm takes as capability from an item: a list of one or none
Capability(item) ==
    LET text == Lower(item.canonical_text)
        cap  == RStripDots(Strip(SplitSecond(text, "eu posso")))
    IN  IF /\ Contains(text, "posso")
           /\ ~Contains(text, "não posso")
           /\ Contains(text, "eu posso")
           /\ cap # ""
           /\ Len(cap) < 80
        THEN <<cap>> ELSE <<>>

\* what update_from_abm takes as limit from an item: the first pattern that gives one
RECURSIVE LimitFrom(_, _)
LimitFrom(text, patterns) ==
    IF patterns = <<>> THEN <<>>
    ELSE LET limit == RStripDots(Strip(SplitSecond(text, Head(patterns))))
         IN  IF Contains(text, Head(patterns)) /\ limit # "" /\ Len(limit) < 80
             THEN <<limit>>
             ELSE LimitFrom(text, Tail(patterns))

Limit(item) ==
    LimitFrom(Lower(item.canonical_text), <<"não posso", "não tenho", "não faço">>)

\* PetCanon.update_from_abm at t: the canon afterwards and the value returned
update_from_abm(c, items, t) ==
    LET min_importance == (4 * Scale) \div 10
        c_pet_items      == get_active_items(items, "C-PET", min_importance)
        voice_items      == get_active_items(items, "VOICE", min_importance)
        policy_items     == get_active_items(items, "POLICY", min_importance)
        tool_items       == get_active_items(items, "TOOLS", min_importance)
        commitment_items == get_active_items(items, "C&C-PERSONA", min_importance)
        Text(item) == item.canonical_text
        IsRole(item) == \/ Contains(Lower(item.canonical_text), "sou um")
                        \/ Contains(Lower(item.canonical_text), "meu papel")
        role_claims       == MapSeq(SelectSeq(c_pet_items, IsRole), Text)
        capability_claims == Flatten(MapSeq(tool_items \o c_pet_items, Capability))
        limit_claims      == Flatten(MapSeq(c_pet_items \o policy_items, Limit))
        new_style         == Join(MapSeq(Prefix(voice_items, 2), Text), " ")
        principle_texts   == MapSeq(Prefix(policy_items, 3), Text)
        commitment_texts  == MapSeq(Prefix(commitment_items, 3), Text)
        role_changes        == role_claims # <<>> /\ role_claims[1] # c.role
        capabilities_change == capability_claims # <<>> /\ capability_claims # c.capabilities
        limits_change       == limit_claims # <<>> /\ limit_claims # c.limits
        style_changes       == voice_items # <<>> /\ new_style # c.style
        principles_change   == principle_texts # <<>> /\ principle_texts # c.principles
        commitments_change  == commitment_texts # <<>> /\ commitment_texts # c.commitments
        updated == \/ role_changes \/ capabilities_change \/ limits_change
                   \/ style_changes \/ principles_change \/ commitments_change
    IN  [updated |-> updated,
         canon |->
            [role         |-> IF role_changes THEN role_claims[1] ELSE c.role,
             capabilities |-> IF capabilities_change THEN Prefix(capability_claims, 3)
                              ELSE c.capabilities,
             limits       |-> IF limits_change THEN Prefix(limit_claims, 3) ELSE c.limits,
             style        |-> IF style_changes THEN new_style ELSE c.style,
             principles   |-> IF principles_change THEN principle_texts ELSE c.principles,
             commitments  |-> IF commitments_change THEN commitment_texts
                              ELSE c.commitments,
             last_updated |-> IF updated THEN t ELSE c.last_updated,
             version      |-> IF updated THEN c.version + 1 ELSE c.version]]

NoCalls == [add_claim |-> 0, revise_claim |-> 0, update_from_abm |-> 0]

\* a PetCanon made first, then an empty AutobiographicalMemory
CanonStart ==
    /\ abm = <<>>
    /\ canon = NewCanon(0)
    /\ utcnow = 1
    /\ result = [op |-> "none", value |-> FALSE]
    /\ calls = NoCalls

\* abm.add_claim(inp.text, inp.claim_type, event_id, inp.importance)
AbmAddClaim(inp) ==
    \E items \in {add_claim(abm, inp.text, inp.claim_type, inp.importance, utcnow)} :
        /\ abm' = items
        /\ utcnow' = utcnow + 1
        /\ result' = [op |-> "add_claim", value |-> Len(items) = Len(abm)]
        /\ calls' = [calls EXCEPT !.add_claim = @ + 1]
        /\ UNCHANGED canon

\* abm.revise_claim(inp.old_text, inp.new_text, inp.reason, event_id)
AbmReviseClaim(inp) ==
    \E items \in {revise_claim(abm, inp.old_text, inp.new_text, inp.reason, utcnow)} :
        /\ abm' = items
        /\ utcnow' = utcnow + 1
        /\ result' = [op |-> "revise_claim", value |-> items # abm]
        /\ calls' = [calls EXCEPT !.revise_claim = @ + 1]
        /\ UNCHANGED canon

\* canon.update_from_abm(abm)
UpdateFromAbm ==
    \E update \in {update_from_abm(canon, abm, utcnow)} :
        /\ canon' = update.canon
        /\ utcnow' = utcnow + 1
        /\ result' = [op |-> "update_from_abm", value |-> update.updated]
        /\ calls' = [calls EXCEPT !.update_from_abm = @ + 1]
        /\ UNCHANGED abm

\* canon.needs_update(abm)
NeedsUpdate ==
    /\ result' = [op |-> "needs_update", value |-> needs_update(canon, abm)]
    /\ UNCHANGED <<abm, canon, utcnow, calls>>

-----------------------------------------------------------------------------
(* SelfConsistencyGuard: a draft response checked against what the pet has *)
(* claimed about itself, and corrected.  The texts are held in the state   *)
(* by their number in the tables below.                                    *)

VARIABLES
    guard_claims,  \* the claims added to the ABM, by their number in GuardClaims
    check_count,   \* SelfConsistencyGuard.check_count
    issue_count,   \* SelfConsistencyGuard.issue_count
    draft,         \* the draft checked last, by its number in Drafts; 0 before any
    checked,       \* the claims of the ABM it was checked against, and what
                   \* check_response returned
    corrected      \* whether correct_response was called on it, and what it returned

guard_vars == <<guard_claims, check_count, issue_count, draft, checked, corrected>>

\* how many claims the ABM takes and how many drafts are checked
MaxGuardClaims == 2

MaxChecks == 1

\* add_claim(text, claim_type, source_event_id, importance) calls
GuardClaims ==
    << [text |-> "Eu posso te ajudar com lembretes", claim_type |-> "C-PET",
        importance |-> (9 * Scale) \div 10],
       [text |-> "Eu não posso acessar a internet", claim_type |-> "C-PET",
        importance |-> (9 * Scale) \div 10],
       [text |-> "Eu não dou conselho.", claim_type |-> "POLICY",
        importance |-> Scale \div 2],
       [text |-> "Nunca vou mentir", claim_type |-> "C&C-PERSONA",
        importance |-> Scale \div 2],
       [text |-> "Falo de modo formal", claim_type |-> "VOICE",
        importance |-> Scale \div 2] >>

\* draft responses
Drafts ==
    << "Eu não posso ajudar com lembretes",
       "Eu vou te ajudar com isso!",
       "Eu não posso te ajudar com lembretes",
       "Eu posso acessar a internet em tempo real",
       "Cara, você deve descansar",
       "Eu vou mentir e recomendo que durma" >>

\* the ABM after add_claim of the claims numbered by ids, in that order
RECURSIVE GuardAbm(_)
GuardAbm(ids) ==
    IF ids = <<>> THEN <<>>
    ELSE LET claim == GuardClaims[ids[Len(ids)]]
         IN  add_claim(GuardAbm(SubSeq(ids, 1, Len(ids) - 1)), claim.text,
                       claim.claim_type, claim.importance, 0)

\* the number of the claim an item holds
ClaimOf(item) == CHOOSE k \in DOMAIN GuardClaims : GuardClaims[k].text = item.canonical_text

\* ConsistencyIssue(issue_type, severity, description, conflicting_abm_item,
\* suggested_correction), severity in hundredths, the item by its claim's number
\* (0 for None), without the two texts written for the log
ConsistencyIssue(issue_type, severity, conflicting_abm_item) ==
    [issue_type |-> issue_type, severity |-> severity, item |-> conflicting_abm_item]

\* any(needle in s for needle in needles)
ContainsAny(s, needles) == \E needle \in needles : Contains(s, needle)

\* SelfConsistencyGuard._extract_after_pattern, "" for None
extract_after_pattern(text, pattern) ==
    LET i     == Find(text, pattern, 1)
        after == Strip(RStripDots(Strip(SubSeq(text, i + Len(pattern), Len(text)))))
    IN  IF i = 0 THEN "" ELSE Join(Prefix(Split(after), 5), " ")

\* what _check_capability_contradictions finds for one item
CapabilityIssues(draft_lower, item) ==
    LET item_lower == Lower(item.canonical_text)
        capability == extract_after_pattern(item_lower, "posso")
        limitation == extract_after_pattern(item_lower, "não posso")
        resource   == extract_after_pattern(item_lower, "não tenho acesso")
    IN  (IF /\ Contains(item_lower, "posso")
            /\ ~Contains(item_lower, "não posso")
            /\ capability # ""
            /\ Contains(draft_lower, "não posso " \o capability)
         THEN <<ConsistencyIssue("contradiction", 90, ClaimOf(item))>> ELSE <<>>)
        \o
        (IF /\ Contains(item_lower, "não posso")
            /\ limitation # ""
            /\ Contains(draft_lower, "posso " \o limitation)
            /\ ~Contains(draft_lower, "não posso " \o limitation)
         THEN <<ConsistencyIssue("contradiction", 95, ClaimOf(item))>> ELSE <<>>)
        \o
        (IF /\ Contains(item_lower, "não tenho acesso")
            /\ resource # ""
            /\ \/ Contains(draft_lower, "tenho acesso " \o resource)
               \/ Contains(draft_lower, "vejo " \o resource)
         THEN <<ConsistencyIssue("contradiction", 90, ClaimOf(item))>> ELSE <<>>)

\* what _check_policy_violations finds for one item
PolicyIssues(draft_lower, item) ==
    LET item_lower == Lower(item.canonical_text)
        action     == extract_after_pattern(item_lower, "não faço")
    IN  (IF /\ Contains(item_lower, "não dou conselho")
            /\ ContainsAny(draft_lower,
                           {"você deve", "recomendo que", "sugiro que", "é melhor você"})
         THEN <<ConsistencyIssue("broken_policy", 80, ClaimOf(item))>> ELSE <<>>)
        \o
        (IF /\ Contains(item_lower, "não faço")
            /\ action # ""
            /\ \/ Contains(draft_lower, "vou " \o action)
               \/ Contains(draft_lower, "faço " \o action)
         THEN <<ConsistencyIssue("broken_policy", 85, ClaimOf(item))>> ELSE <<>>)

\* what _check_commitment_violations finds for one item
CommitmentIssues(draft_lower, item) ==
    LET item_lower == Lower(item.canonical_text)
        pattern    == IF Contains(item_lower, "nunca vou") THEN "nunca vou" ELSE "nunca faço"
        action     == extract_after_pattern(item_lower, pattern)
    IN  IF /\ Contains(item_lower, "nunca vou") \/ Contains(item_lower, "nunca faço")
           /\ action # ""
           /\ \/ Contains(draft_lower, "vou " \o action)
              \/ Contains(draft_lower, "faço " \o action)
        THEN <<ConsistencyIssue("broken_promise", 90, ClaimOf(item))>> ELSE <<>>

\* SelfConsistencyGuard._check_tone_consistency
ToneIssues(draft_response, canonical_style) ==
    LET canonical_lower == Lower(canonical_style)
        draft_lower     == Lower(draft_response)
    IN  (IF /\ Contains(canonical_lower, "formal")
            /\ ContainsAny(draft_lower, {"né", "tá", "pô", "cara", "mano"})
         THEN <<ConsistencyIssue("tone_shift", 50, 0)>> ELSE <<>>)
        \o
        (IF /\ Contains(canonical_lower, "informal") \/ Contains(canonical_lower, "casual")
            /\ ContainsAny(draft_lower, {"portanto", "ademais", "outrossim", "destarte"})
         THEN <<ConsistencyIssue("tone_shift", 50, 0)>> ELSE <<>>)
        \o
        (IF /\ Contains(canonical_lower, "conciso") \/ Contains(canonical_lower, "curto")
            /\ Len(draft_response) > 500
         THEN <<ConsistencyIssue("tone_shift", 40, 0)>> ELSE <<>>)

\* SelfConsistencyGuard.check_response: the issues; canon_style is "" without a canon
check_response(draft_response, items, canon_style) ==
    LET draft_lower      == Lower(draft_response)
        min_importance   == (4 * Scale) \div 10
        c_pet_items      == get_active_items(items, "C-PET", min_importance)
        policy_items     == get_active_items(items, "POLICY", min_importance)
        tool_items       == get_active_items(items, "TOOLS", min_importance)
        commitment_items == get_active_items(items, "C&C-PERSONA", min_importance)
        Capabilities(item) == CapabilityIssues(draft_lower, item)
        Policies(item)     == PolicyIssues(draft_lower, item)
        Commitments(item)  == CommitmentIssues(draft_lower, item)
    IN  Flatten(MapSeq(c_pet_items \o tool_items, Capabilities))
        \o Flatten(MapSeq(policy_items, Policies))
        \o Flatten(MapSeq(commitment_items, Commitments))
        \o (IF canon_style # "" THEN ToneIssues(draft_response, canon_style) ELSE <<>>)

\* text.split('.')[0]
BeforeDot(text) ==
    LET i == Find(text, ".", 1)
    IN  IF i = 0 THEN text ELSE SubSeq(text, 1, i - 1)

\* SelfConsistencyGuard._generate_correction_prefix, "" for None
generate_correction_prefix(issue) ==
    LET abm_text == GuardClaims[issue.item].text
    IN  IF issue.item = 0 THEN ""
        ELSE IF Contains(Lower(abm_text), "não posso")
        THEN "Corrigindo: na verdade, " \o BeforeDot(abm_text) \o "."
        ELSE IF Contains(Lower(abm_text), "não tenho acesso")
        THEN "Importante lembrar: " \o BeforeDot(abm_text) \o "."
        ELSE IF Contains(Lower(abm_text), "não faço") \/ Contains(Lower(abm_text), "não dou")
        THEN "Só para esclarecer: " \o BeforeDot(abm_text) \o "."
        ELSE ""

\* issues.sort(key=lambda x: x.severity, reverse=True)
SortBySeverity(issues) ==
    LET Severity(issue) == issue.severity
    IN  Prefix(SortByScore(issues, MapSeq(issues, Severity)), Len(issues))

\* SelfConsistencyGuard.correct_response: the text returned
correct_response(draft_response, issues) ==
    LET top_issue == SortBySeverity(issues)[1]
        correction_prefix == generate_correction_prefix(top_issue)
    IN  IF issues = <<>> THEN draft_response
        ELSE IF /\ top_issue.severity >= 80
                /\ top_issue.issue_type \in {"contradiction", "broken_policy"}
                /\ correction_prefix # ""
        THEN correction_prefix \o " " \o draft_response
        ELSE draft_response

\* SelfConsistencyGuard() and an empty AutobiographicalMemory
GuardStart ==
    /\ guard_claims = <<>>
    /\ check_count = 0
    /\ issue_count = 0
    /\ draft = 0
    /\ checked = [claims |-> <<>>, is_consistent |-> TRUE, issues |-> <<>>]
    /\ corrected = [called |-> FALSE, text |-> ""]

\* abm.add_claim of the claim numbered k, which the ABM does not hold yet
GuardAddClaim(k) ==
    /\ \A i \in 1..Len(guard_claims) : guard_claims[i] # k
    /\ guard_claims' = Append(guard_claims, k)
    /\ UNCHANGED <<check_count, issue_count, draft, checked, corrected>>

\* scg.check_response(Drafts[d], abm, canon), the canon updated from the abm, or
\* scg.check_response(Drafts[d], abm)
CheckResponse(d, with_canon) ==
    \E items \in {GuardAbm(guard_claims)} :
        \E style \in {IF with_canon
                      THEN update_from_abm(NewCanon(0), items, 0).canon.style ELSE ""} :
            \E issues \in {check_response(Drafts[d], items, style)} :
                /\ check_count' = check_count + 1
                /\ issue_count' = issue_count + Len(issues)
                /\ draft' = d
                /\ checked' = [claims |-> guard_claims,
                               is_consistent |-> Len(issues) = 0, issues |-> issues]
                /\ corrected' = [called |-> FALSE, text |-> ""]
                /\ UNCHANGED guard_claims

\* scg.correct_response(Drafts[draft], issues) on the issues check_response returned
CorrectResponse ==
    /\ draft # 0
    /\ ~corrected.called
    /\ corrected' = [called |-> TRUE, text |-> correct_response(Drafts[draft], checked.issues)]
    /\ checked' = [checked EXCEPT !.issues = SortBySeverity(@)]
    /\ UNCHANGED <<guard_claims, check_count, issue_count, draft>>

-----------------------------------------------------------------------------
(* An EventSegmenter on its own: turns added one minute apart, the question *)
(* whether to segment, and the event made of the turns.                    *)

VARIABLES
    asked   \* the should_segment call made last, and what it returned

seg_vars == <<asked>>

\* how many turns are added to the segmenter
SegmenterTurns == 10

\* embeddings of the turns added, and of the turn asked about
TurnEmbeddings == {NoEmbedding, <<1, 0>>}

NewEmbeddings == {NoEmbedding, <<4, 3>>, <<0, 1>>}

\* minutes from the last turn to the turn asked about
Gaps == {10, 11, 20}

NotAsked == [new_embedding |-> NoEmbedding, new_timestamp |-> NoTime, result |-> FALSE]

SegmenterStart == asked = NotAsked

\* segmenter.add_turn(user_msg, pet_msg, now, embedding), a minute after the last
SegAddTurn(embedding) ==
    /\ current_turns' =
           Append(current_turns, [user |-> "Message", pet |-> "Response",
                                  timestamp |-> now, embedding |-> embedding])
    /\ last_timestamp' = now
    /\ last_embedding' = IF embedding # NoEmbedding THEN embedding ELSE last_embedding
    /\ now' = now + Minute
    /\ used' = [used EXCEPT !.turns = @ + 1]
    /\ last_op' = "add_turn"
    /\ UNCHANGED asked

\* segmenter.should_segment(new_embedding, new_timestamp), new_timestamp being gap
\* minutes after the last turn (after the start when there is no turn)
SegShouldSegment(new_embedding, gap) ==
    LET new_timestamp == (IF last_timestamp = NoTime THEN 0 ELSE last_timestamp) + gap
    IN  /\ asked' = [new_embedding |-> new_embedding,
                     new_timestamp |-> new_timestamp,
                     result |-> should_segment(current_turns, last_embedding,
                                               last_timestamp, new_embedding,
                                               new_timestamp)]
        /\ last_op' = "should_segment"
        /\ UNCHANGED <<current_turns, last_timestamp, last_embedding, now, used>>

\* segmenter.create_event(event_id) with turns to make an event of
SegCreateEvent ==
    /\ current_turns # <<>>
    /\ current_turns' = <<>>
    /\ last_embedding' = NoEmbedding
    /\ last_timestamp' = NoTime
    /\ last_op' = "create_event"
    /\ UNCHANGED <<now, used, asked>>

-----------------------------------------------------------------------------
(* A MemoryStore that is only given episodes, more of them than its        *)
(* episodic buffer holds.                                                   *)

VARIABLES
    added   \* every episode add_episode was given, in the order of the calls

buf_vars == <<added>>

\* how many episodes the store is given
BufferEpisodes == 103

\* how many of them are not the plain episode "oi"
BufferMarked == 1

BufferInputs == {inp \in EpisodeInputs : inp.salience = Scale \div 2}

Marked(items) == {i \in 1..Len(items) : items[i].text # "oi"}

BufferStart == added = <<>>

\* store.add_episode(text, salience, importance_score), the call noted down
BufAddEpisode(inp) ==
    /\ AddEpisode(inp)
    /\ added' = Append(added, [kind |-> "episode", text |-> inp.text,
                               salience |-> inp.salience,
                               importance_score |-> inp.importance_score,
                               timestamp |-> now])

-----------------------------------------------------------------------------
(* EchoTrace: the speech patterns that worked, kept up to a capacity.      *)

VARIABLES
    echo,        \* the EchoTrace: its patterns and its max_patterns
    pruned,      \* what each _prune_patterns of the last operation removed and kept
    echo_calls   \* the number of operations so far

echo_vars == <<echo, pruned, echo_calls>>

\* the largest capacity an EchoTrace is created with
MaxEchoCapacity == 2

\* how many operations are run on the EchoTraces
EchoCalls == 4

\* success signals as integers: halving one stays exact through nine reinforcements
Fine == 512 * Scale

\* EchoTrace(): max_patterns: int = 50
DefaultMaxPatterns == 50

\* the patterns add_pattern is given
PatternInputs ==
    { [text |-> "Oi, tudo bem", context |-> "greeting", success_signal |-> Fine \div 2],
      [text |-> "oi, tudo bem com voce", context |-> "greeting",
       success_signal |-> (7 * Fine) \div 10],
      [text |-> "Que legal isso", context |-> "enthusiasm",
       success_signal |-> (3 * Fine) \div 10],
      [text |-> "Vamos passear hoje", context |-> "enthusiasm",
       success_signal |-> (7 * Fine) \div 10],
      [text |-> "oi", context |-> "greeting", success_signal |-> Fine \div 2],
      [text |-> LongText, context |-> "explanation", success_signal |-> Fine \div 2] }

\* the responses extract_from_response is given
Responses ==
    { "Oi, tudo bem? Que legal isso!",
      "Bom dia. Entendo como voce se sente. Vamos passear hoje!",
      "Hey! Adorei saber. E voce? Imagino que sim" }

EchoPattern(text, context, success_signal, t) ==
    [pattern_text |-> text, context_tag |-> context, success_signal |-> success_signal,
     usage_count |-> 1, last_used |-> t, created_at |-> t]

\* the key of _prune_patterns, success_signal * 0.6 + (usage_count / 10) * 0.4,
\* ten times over
PruneScore(p) == 6 * p.success_signal + 4 * (Fine \div 10) * p.usage_count

\* a pruning that removes the oldest patterns, whatever their scores
prune_oldest(patterns, max_patterns) ==
    [kept    |-> SubSeq(patterns, Len(patterns) - max_patterns + 1, Len(patterns)),
     removed |-> SubSeq(patterns, 1, Len(patterns) - max_patterns)]

\* EchoTrace._prune_patterns: the patterns kept and the patterns removed
prune_patterns(patterns, max_patterns) ==
    LET sorted == SortByScore(patterns, MapSeq(patterns, PruneScore))
    IN  [kept    |-> SubSeq(sorted, 1, max_patterns),
         removed |-> SubSeq(sorted, max_patterns + 1, Len(patterns))]

\* EchoTrace._find_similar_pattern: the place of the pattern found, 0 for None
find_similar_pattern(patterns, text, context) ==
    LET text_lower == Lower(text)
        Similar(i) ==
            /\ patterns[i].context_tag = context
            /\ \/ Contains(Lower(patterns[i].pattern_text), text_lower)
               \/ Contains(text_lower, Lower(patterns[i].pattern_text))
    IN  IF \E i \in 1..Len(patterns) : Similar(i)
        THEN CHOOSE i \in 1..Len(patterns) :
                 Similar(i) /\ \A j \in 1..(i - 1) : ~Similar(j)
        ELSE 0

\* EchoTrace.add_pattern at t on a trace e with the prunings so far: the trace and
\* the prunings afterwards, and whether a pattern is returned
add_pattern(e, text, context, success_signal, t) ==
    LET short == IF Len(text) > 120 THEN Prefix(text, 117) \o "..." ELSE text
        existing == find_similar_pattern(e.patterns, short, context)
        appended == Append(e.patterns, EchoPattern(short, context, success_signal, t))
        split == prune_patterns(appended, e.max_patterns)
    IN  IF Len(short) < 10 THEN [e EXCEPT !.returned = FALSE]
        ELSE IF existing # 0
        THEN [e EXCEPT !.patterns[existing] =
                           [@ EXCEPT !.usage_count = @ + 1,
                                     !.last_used = t,
                                     !.success_signal = (@ + success_signal) \div 2],
                       !.returned = TRUE]
        ELSE IF Len(appended) > e.max_patterns
        THEN [e EXCEPT !.patterns = split.kept,
                       !.pruned = Append(@, split),
                       !.returned = TRUE]
        ELSE [e EXCEPT !.patterns = appended, !.returned = TRUE]

\* response.split('.')
RECURSIVE SplitDots(_)
SplitDots(s) ==
    LET dot == Find(s, ".", 1)
    IN  IF dot = 0 THEN <<s>>
        ELSE <<SubSeq(s, 1, dot - 1)>> \o SplitDots(SubSeq(s, dot + 1, Len(s)))

greeting_markers == {"olá", "oi", "hey", "bom dia", "boa tarde", "boa noite"}

empathy_markers == {"entendo", "compreendo", "sei como", "imagino que", "deve ser"}

enthusiasm_markers == {"!", "adorei", "que legal", "incrível", "ótimo", "maravilha"}

\* the sentences the loops of extract_from_response look at, by context
Marked_as(context, sentence) ==
    CASE context = "question" -> Contains(sentence, "?")
      [] context = "empathy" -> ContainsAny(Lower(sentence), empathy_markers)
      [] context = "enthusiasm" ->
             ContainsAny(Lower(sentence), enthusiasm_markers) \/ Contains(sentence, "!")

\* and the lengths they take
LengthTaken(context, text) ==
    IF context = "question" THEN Len(text) <= 120
    ELSE 10 < Len(text) /\ Len(text) <= 120

\* the loops over the sentences: the first one that gives a pattern ends the loop
RECURSIVE ExtractFirst(_, _, _, _, _, _)
ExtractFirst(e, sentences, i, context, success, t) ==
    IF i > Len(sentences) THEN e
    ELSE LET text == Strip(sentences[i])
             after == add_pattern(e, text, context, success, t)
         IN  IF Marked_as(context, sentences[i]) /\ LengthTaken(context, text)
             THEN IF after.returned THEN after
                  ELSE ExtractFirst(after, sentences, i + 1, context, success, t)
             ELSE ExtractFirst(e, sentences, i + 1, context, success, t)

\* the count of "!" in a text
Exclamations(s) == Cardinality({i \in 1..Len(s) : Ch(s, i) = "!"})

\* EchoTrace.extract_from_response at t
extract_from_response(e, response, user_reaction_positive, t) ==
    LET success == IF user_reaction_positive THEN (7 * Fine) \div 10
                   ELSE (3 * Fine) \div 10
        response_lower == Lower(response)
        sentences == SplitDots(response)
        first_sentence == Strip(sentences[1])
        e1 == IF ContainsAny(response_lower, greeting_markers)
                  /\ Len(first_sentence) <= 120
              THEN add_pattern(e, first_sentence, "greeting", success, t)
              ELSE e
        e2 == IF Contains(response, "?")
              THEN ExtractFirst(e1, sentences, 1, "question", success, t)
              ELSE e1
        e3 == IF ContainsAny(response_lower, empathy_markers)
              THEN ExtractFirst(e2, sentences, 1, "empathy", success, t)
              ELSE e2
    IN  IF ContainsAny(response_lower, enthusiasm_markers)
           \/ Exclamations(response) >= 2
        THEN ExtractFirst(e3, sentences, 1, "enthusiasm", success, t)
        ELSE e3

\* EchoTrace(max_patterns)
NewEchoTrace(max_patterns) == [patterns |-> <<>>, max_patterns |-> max_patterns]

EchoStart ==
    /\ echo = NewEchoTrace(DefaultMaxPatterns)
    /\ pruned = <<>>
    /\ echo_calls = 0

\* echo = EchoTrace(max_patterns=max_patterns)
EchoCreate(max_patterns) ==
    /\ echo' = NewEchoTrace(max_patterns)
    /\ pruned' = <<>>
    /\ echo_calls' = echo_calls + 1
    /\ last_op' = "EchoTrace"
    /\ UNCHANGED now

\* echo.add_pattern(text, context, success_signal)
EchoAddPattern(inp) ==
    \E after \in {add_pattern([patterns |-> echo.patterns,
                               max_patterns |-> echo.max_patterns,
                               pruned |-> <<>>, returned |-> FALSE],
                              inp.text, inp.context, inp.success_signal, now)} :
        /\ echo' = [echo EXCEPT !.patterns = after.patterns]
        /\ pruned' = after.pruned
        /\ echo_calls' = echo_calls + 1
        /\ now' = now + 1
        /\ last_op' = "add_pattern"

\* echo.extract_from_response(response, user_reaction_positive)
EchoExtract(response, user_reaction_positive) ==
    \E after \in {extract_from_response([patterns |-> echo.patterns,
                                         max_patterns |-> echo.max_patterns,
                                         pruned |-> <<>>, returned |-> FALSE],
                                        response, user_reaction_positive, now)} :
        /\ echo' = [echo EXCEPT !.patterns = after.patterns]
        /\ pruned' = after.pruned
        /\ echo_calls' = echo_calls + 1
        /\ now' = now + 1
        /\ last_op' = "extract_from_response"

-----------------------------------------------------------------------------
(* The semantic facts of a pet: the MemoryStore's, promoted from episodes, *)
(* and the manager's, made of the user's corrections and kept in Firestore. *)

\* how many episodes, of texts all different, the store is given
MaxFactEpisodes == 3

\* how many turns with a correction the manager is given
MaxFactTurns == 3

\* episodes that every consolidation promotes
FactEpisodes ==
    << [text |-> "Gosto de cafe", salience |-> Scale \div 2, importance_score |-> Scale],
       [text |-> "Gosto de cha", salience |-> Scale \div 2, importance_score |-> Scale],
       [text |-> "Moro em Lisboa", salience |-> Scale \div 2, importance_score |-> Scale],
       [text |-> "Tenho um gato", salience |-> Scale \div 2, importance_score |-> Scale],
       [text |-> "Tenho dois filhos", salience |-> Scale \div 2,
        importance_score |-> Scale] >>

\* the turns the manager is given, each with a correction: a name, a preference,
\* the name again, another name
TurnSaying(user) == CHOOSE inp \in TurnInputs : inp.user = user

CorrectionTurns ==
    << TurnSaying("meu nome eh ana"), TurnSaying("prefiro cafe"),
       TurnSaying("meu nome eh ana"), TurnSaying("na verdade, meu nome eh bia?") >>

-----------------------------------------------------------------------------
(* The semantic memory of a MemoryStore over time: reinforcement, recall    *)
(* and decay.                                                               *)

VARIABLES
    store_log   \* how many reinforcements, recalls and decays so far, and what the
                \* last reinforce_memory returned

store_vars == <<store_log>>

MaxReinforcements == 1

MaxRecalls == 1

MaxDecays == 1

\* how often the clock advances between the operations of a store
StoreTicks == 1

\* the (memory_text, boost) reinforce_memory is called with: its default boost and
\* that of PetState._extract_user_info
ReinforceInputs ==
    { [memory_text |-> " Gosto de cafe", boost |-> (2 * Scale) \div 10],
      [memory_text |-> "gosto de cafe", boost |-> (3 * Scale) \div 10],
      [memory_text |-> "cafe", boost |-> (2 * Scale) \div 10] }

\* the queries recall is called with
RecallQueries == {"", "Cafe", "boa tarde, oi"}

\* the hours_elapsed apply_memory_decay is called with: none, a month, two months
DecayHours == {0, 24 * 30, 24 * 60}

\* a loss that grows with the access count, up to the whole of it at 10 accesses
decay_amount_growing(hours_elapsed, fact, t) ==
    LET decay_factor  == (Scale * hours_elapsed) \div (24 * 7)
        access_factor == (Min(11, 1 + fact.access_count) * Scale) \div 11
        month         == 24 * 30 * Hour
        time_factor   == (Scale * Min(month, t - fact.last_reinforced)) \div month
    IN  ((((decay_factor * access_factor) \div Scale) * time_factor) \div Scale) \div 10

\* the weight a fact loses in apply_memory_decay at t: hours_elapsed / (24 * 7)
\* * 1 / (1 + access_count * 0.2) * min(1, hours_since_access / (24 * 30)) * 0.1
decay_amount(hours_elapsed, fact, t) ==
    LET decay_factor  == (Scale * hours_elapsed) \div (24 * 7)
        access_factor == (5 * Scale) \div (5 + fact.access_count)
        month         == 24 * 30 * Hour
        time_factor   == (Scale * Min(month, t - fact.last_reinforced)) \div month
    IN  ((((decay_factor * access_factor) \div Scale) * time_factor) \div Scale) \div 10

\* the weight apply_memory_decay leaves a fact with
decayed_weight(hours_elapsed, fact, t) ==
    Max(0, fact.weight - decay_amount(hours_elapsed, fact, t))

\* a decay that forgets nothing
decay_without_forgetting(facts, hours_elapsed, t) ==
    [key \in DOMAIN facts |->
         [facts[key] EXCEPT !.weight = decayed_weight(hours_elapsed, facts[key], t)]]

\* MemoryStore.apply_memory_decay at t: the semantic memory afterwards
apply_memory_decay(facts, hours_elapsed, t) ==
    LET forgotten_keys ==
            {key \in DOMAIN facts :
                 decayed_weight(hours_elapsed, facts[key], t) < Scale \div 10}
    IN  [key \in DOMAIN facts \ forgotten_keys |->
             [facts[key] EXCEPT !.weight = decayed_weight(hours_elapsed, facts[key], t)]]

\* MemoryStore.reinforce_memory at t: the semantic memory afterwards
reinforce_memory(facts, memory_text, boost, t) ==
    LET key == Strip(Lower(memory_text))
    IN  IF key \in DOMAIN facts
        THEN [facts EXCEPT ![key] = [weight |-> Min(Scale, @.weight + boost),
                                     last_reinforced |-> t,
                                     access_count |-> @.access_count + 1]]
        ELSE facts

\* a recall that counts an access only for the heaviest facts it matches
recall_counting_heaviest(facts, query, t) ==
    LET key == Strip(Lower(query))
        Matching == {text \in DOMAIN facts : Contains(text, key) \/ Contains(key, text)}
    IN  IF query = "" THEN facts
        ELSE [text \in DOMAIN facts |->
                 IF /\ text \in Matching
                    /\ \A other \in Matching : facts[other].weight <= facts[text].weight
                 THEN [facts[text] EXCEPT !.last_reinforced = t,
                                          !.access_count = @ + 1]
                 ELSE facts[text]]

\* MemoryStore.recall with a query at t: the semantic memory afterwards
recall(facts, query, t) ==
    LET key == Strip(Lower(query))
    IN  IF query = "" THEN facts
        ELSE [text \in DOMAIN facts |->
                 IF Contains(text, key) \/ Contains(key, text)
                 THEN [facts[text] EXCEPT !.last_reinforced = t,
                                          !.access_count = @ + 1]
                 ELSE facts[text]]

StoreStart ==
    store_log = [reinforcements |-> 0, recalls |-> 0, decays |-> 0, reinforced |-> FALSE]

\* store.reinforce_memory(memory_text, boost)
ReinforceMemory(inp) ==
    /\ semantic' = reinforce_memory(semantic, inp.memory_text, inp.boost, now)
    /\ store_log' = [store_log EXCEPT
                        !.reinforcements = @ + 1,
                        !.reinforced = Strip(Lower(inp.memory_text)) \in DOMAIN semantic]
    /\ last_op' = "reinforce_memory"
    /\ UNCHANGED <<now, episodic, abm_items, retrieved, mem_log>>

\* store.recall(query)
Recall(query) ==
    /\ semantic' = recall(semantic, query, now)
    /\ store_log' = [store_log EXCEPT !.recalls = @ + 1]
    /\ last_op' = "recall"
    /\ UNCHANGED <<now, episodic, abm_items, retrieved, mem_log>>

\* store.apply_memory_decay(hours_elapsed)
ApplyMemoryDecay(hours_elapsed) ==
    /\ semantic' = apply_memory_decay(semantic, hours_elapsed, now)
    /\ store_log' = [store_log EXCEPT !.decays = @ + 1]
    /\ last_op' = "apply_memory_decay"
    /\ UNCHANGED <<now, episodic, abm_items, retrieved, mem_log>>

-----------------------------------------------------------------------------
(* Facts written into a store as they are, and decayed.                     *)

VARIABLES
    decay_log   \* how many facts were written, and what the store held when the
                \* last decay began

decay_vars == <<decay_log>>

\* how many facts are written into the store
MaxFactsSet == 2

\* the facts written: their weights, how long ago they were accessed last, and
\* how often
FactsSet ==
    [key : {"popular fact", "unused fact"},
     weight : {(6 * Scale) \div 10, (2 * Scale) \div 10},
     age : {0, 10 * Day, 60 * Day},
     access_count : {0, 3, 10}]

DecayStart == decay_log = [sets |-> 0, before |-> EmptyDict]

\* store.semantic[key] = (weight, utcnow() - age, access_count)
SetFact(inp) ==
    /\ semantic' = DictSet(semantic, inp.key,
                           [weight |-> inp.weight, last_reinforced |-> now - inp.age,
                            access_count |-> inp.access_count])
    /\ decay_log' = [decay_log EXCEPT !.sets = @ + 1]
    /\ last_op' = "set_fact"
    /\ UNCHANGED <<now, episodic, abm_items, retrieved, mem_log, store_log>>

\* store.apply_memory_decay(hours_elapsed), the store before it noted down
DecayNoted(hours_elapsed) ==
    /\ ApplyMemoryDecay(hours_elapsed)
    /\ decay_log' = [decay_log EXCEPT !.before = semantic]

-----------------------------------------------------------------------------
(* A SalienceScorer scoring items while time passes.                        *)

VARIABLES
    scored   \* the calls of calculate_salience made, with what they returned

sal_vars == <<scored>>

\* how many items are scored
MaxScored == 2

\* the items scored: how long ago they happened (an item of tomorrow happens in
\* a day), how often they were repeated, whether they are new, how intense the
\* emotion is (out of range as well), and whether they are marked important
SalienceInputs ==
    [age : {0, Hour, 30 * Day, -Day},
     repetition_count : {0, 1, 20},
     is_novel : BOOLEAN,
     emotion_intensity : {-(Scale \div 2), 0, Scale \div 2, 2 * Scale},
     is_explicit : BOOLEAN]

SalienceStart == scored = <<>>

\* scorer.calculate_salience(utcnow() - age, repetition_count, is_novel,
\*                           emotion_intensity, is_explicit)
CalculateSalience(inp) ==
    /\ \E salience \in {calculate_salience(inp.age, inp.repetition_count, inp.is_novel,
                                           inp.emotion_intensity, inp.is_explicit)} :
           scored' = Append(scored, [timestamp |-> now - inp.age, at |-> now,
                                     repetition_count |-> inp.repetition_count,
                                     is_novel |-> inp.is_novel,
                                     emotion_intensity |-> inp.emotion_intensity,
                                     is_explicit |-> inp.is_explicit,
                                     salience |-> salience])
    /\ last_op' = "calculate_salience"
    /\ UNCHANGED now

-----------------------------------------------------------------------------
(* A VirtualPet answering messages through generate_text, whose generation   *)
(* service answers, is unavailable or fails.  Texts are written without      *)
(* accents and pictographs.                                                  *)

VARIABLES
    turn   \* the pet's turn: where it stands, the message, what the service did
           \* and the reply

turn_vars == <<turn>>

\* how many messages the pet is sent, and how often generate_text is called alone
MaxPetTurns == 2

MaxDirectCalls == 1

\* what the generation service does: no model (no package or no key), the call
\* raises, or it returns a text
Services ==
    { [kind |-> "unavailable", text |-> ""], [kind |-> "raises", text |-> ""],
      [kind |-> "answers", text |-> " Oi, tudo bem? "], [kind |-> "answers", text |-> " "] }

PetMessages == {"oi", "qual meu nome?", "valeu", "gosto de jogar"}

\* prompts and contexts generate_text is called with alone
DirectPrompts ==
    {"Diga ola", "Pergunta: \"qual meu nome?\"", "mensagem do usuario: \"qual minha idade?\"",
     "Mensagem: \"do que eu gosto?\"", "Mensagem: \"qual meu trabalho?\"",
     "Mensagem: \"adoro musica\""}

DirectContexts == {"", "nome: Ana; idade: 30; gosta de: cafe; gosta de: jogos"}

Quote == "\""

NewLine == "\n"

IsBlank(c) == c = " " \/ c = NewLine

\* the first position from i on that holds no blank
SkipBlanks(s, i) ==
    CHOOSE e \in i..(Len(s) + 1) :
        /\ \A x \in i..(e - 1) : IsBlank(Ch(s, x))
        /\ e = Len(s) + 1 \/ ~IsBlank(Ch(s, e))

\* the first text in quotes that follows one of `words` (of length n) on its
\* line, as re.search(r'[Ww]ord.*?[":]\s*"([^"]+)"', s) finds it
QuotedAfter(s, words, n) ==
    LET Closing(q) == {e \in (q + 2)..Len(s) :
                           Ch(s, e) = Quote /\ \A x \in (q + 1)..(e - 1) : Ch(s, x) # Quote}
        \* the separator at j, blanks, and a text in quotes
        Opens(j) == LET q == SkipBlanks(s, j + 1)
                    IN  q <= Len(s) /\ Ch(s, q) = Quote /\ Closing(q) # {}
        Separators(i) == {j \in (i + n)..Len(s) :
                              /\ Ch(s, j) \in {Quote, ":"}
                              /\ \A x \in (i + n)..(j - 1) : Ch(s, x) # NewLine
                              /\ Opens(j)}
        Starts == {i \in 1..Len(s) :
                       (\E w \in words : StartsAt(s, i, w)) /\ Separators(i) # {}}
    IN  IF Starts = {} THEN None
        ELSE LET i == CHOOSE x \in Starts : \A y \in Starts : x <= y
                 j == CHOOSE x \in Separators(i) : \A y \in Separators(i) : x <= y
                 q == SkipBlanks(s, j + 1)
                 e == CHOOSE x \in Closing(q) : TRUE
             IN  Some(SubSeq(s, q + 1, e - 1))

\* the word after `label`, as re.search(label + r'\s*(\w+)', context, re.IGNORECASE)
\* finds it
WordAfter(context, label) ==
    LET lower  == Lower(context)
        Starts == {i \in 1..Len(context) :
                       /\ StartsAt(lower, i, label)
                       /\ SkipWord(context, SkipBlanks(context, i + Len(label)))
                              > SkipBlanks(context, i + Len(label))}
    IN  IF Starts = {} THEN None
        ELSE LET i == CHOOSE x \in Starts : \A y \in Starts : x <= y
                 a == SkipBlanks(context, i + Len(label))
             IN  Some(SubSeq(context, a, SkipWord(context, a) - 1))

\* the stripped texts after each `label` up to ';', ',' or the end of the line, as
\* re.findall(label + r'\s*([^;,\n]+)', context, re.IGNORECASE) finds them: the
\* blanks after the label are skipped, or left to the text when nothing else
\* follows them
RECURSIVE AllAfter(_, _, _)
AllAfter(context, label, from) ==
    LET lower  == Lower(context)
        Ends(c) == c \in {";", ",", NewLine}
        After(i) == SkipBlanks(context, i + Len(label))
        Follows(i) == After(i) <= Len(context) /\ ~Ends(Ch(context, After(i)))
        Starts == {i \in from..Len(context) :
                       /\ StartsAt(lower, i, label)
                       /\ \/ Follows(i)
                          \/ After(i) > i + Len(label) /\ Ch(context, After(i) - 1) = " "}
    IN  IF Starts = {} THEN <<>>
        ELSE LET i == CHOOSE x \in Starts : \A y \in Starts : x <= y
                 a == After(i)
                 e == CHOOSE x \in a..(Len(context) + 1) :
                          /\ \A y \in a..(x - 1) : ~Ends(Ch(context, y))
                          /\ x = Len(context) + 1 \/ Ends(Ch(context, x))
             IN  IF Follows(i)
                 THEN <<Strip(SubSeq(context, a, e - 1))>> \o AllAfter(context, label, e)
                 ELSE <<"">> \o AllAfter(context, label, a)

\* ', '.join(items)
RECURSIVE JoinComma(_)
JoinComma(items) ==
    IF Len(items) = 0 THEN ""
    ELSE IF Len(items) = 1 THEN items[1]
    ELSE items[1] \o ", " \o JoinComma(Tail(items))

\* str.endswith
endswith(s, lit) == Len(s) >= Len(lit) /\ SubSeq(s, Len(s) - Len(lit) + 1, Len(s)) = lit

\* _generate_smart_fallback: the replies random.choice may return
generate_smart_fallback(prompt, context) ==
    LET message  == QuotedAfter(prompt, {"Mensagem", "mensagem"}, 8)
        question == QuotedAfter(prompt, {"Pergunta", "pergunta"}, 8)
        latest   == QuotedAfter(prompt, {"Última mensagem", "última mensagem"}, 15)
        user_message ==
            IF message.found THEN message.text
            ELSE IF question.found THEN question.text
            ELSE IF latest.found THEN latest.text
            ELSE ""
        name       == IF context = "" THEN None ELSE WordAfter(context, "nome:")
        age        == IF context = "" THEN None ELSE WordAfter(context, "idade:")
        profession == IF context = "" THEN <<>> ELSE AllAfter(context, "profissão:", 1)
        hobbies    == IF context = "" THEN <<>> ELSE AllAfter(context, "gosta de:", 1)
        lower_msg  == Lower(user_message)
        HasAny(words) == \E w \in words : Contains(lower_msg, w)
    IN  IF Contains(prompt, "Primeira")
              /\ (Contains(prompt, "interação") \/ Contains(prompt, "vez"))
        THEN {"Oi! Que massa te conhecer!", "E ai! Tudo bem?", "Opa! Prazer!",
              "Ola! Fico feliz que veio falar comigo!", "Hey! Como vai?"}
        ELSE IF endswith(user_message, "?")
        THEN IF Contains(lower_msg, "nome")
             THEN IF name.found
                  THEN {"Seu nome e " \o name.text \o "!", "Vc e o " \o name.text \o ", ne?",
                        name.text \o "! Lembro sim"}
                  ELSE {"Hmm, nao lembro do seu nome ainda... pode me dizer?",
                        "Opa, esqueci! Qual e seu nome mesmo?",
                        "Po, nao me lembro... me fala ai?"}
             ELSE IF Contains(lower_msg, "idade")
             THEN IF age.found
                  THEN {"Vc tem " \o age.text \o " anos!", age.text \o " anos, ne?",
                        "Tem " \o age.text \o " anos!"}
                  ELSE {"Nao lembro da sua idade... quantos anos vc tem?",
                        "Opa, nao sei! Me fala quantos anos vc tem?", "Esqueci! Qual sua idade?"}
             ELSE IF Contains(lower_msg, "trabalho") \/ Contains(lower_msg, "profissão")
             THEN IF Len(profession) > 0
                  THEN {"Vc trabalha como " \o profession[1] \o ", ne?",
                        "Voce e " \o profession[1] \o "!", profession[1] \o "! Massa!"}
                  ELSE {"Nao sei o que vc faz ainda... me conta?",
                        "Opa, nao lembro! Qual seu trampo?", "Esqueci! O que vc faz?"}
             ELSE IF HasAny({"hobby", "hobbies", "gosta", "gosto"})
             THEN IF Len(hobbies) = 1 THEN {"Vc gosta de " \o hobbies[1] \o "!"}
                  ELSE IF Len(hobbies) > 1
                  THEN {"Vc gosta de " \o JoinComma(SubSeq(hobbies, 1, Len(hobbies) - 1))
                            \o " e " \o hobbies[Len(hobbies)] \o "!"}
                  ELSE {"Nao sei ainda do que vc gosta... me conta!",
                        "Opa, nao sei! Do que vc gosta?", "Esqueci! Me fala suas paradas!"}
             ELSE {"Boa pergunta! Deixa eu pensar...",
                   "Hmm... interessante! Nao sei bem, mas posso aprender!",
                   "Po, nao sei... o que vc acha?", "Boa! Nao tenho certeza..."}
        ELSE IF HasAny({"sou", "me chamo", "meu nome"})
        THEN {"Prazer em te conhecer!", "Massa te conhecer melhor!",
              "Que legal saber mais sobre vc!", "Show! Prazer!"}
        ELSE IF HasAny({"oi", "olá", "ola", "hey", "e aí", "eai"})
        THEN {"Oi! Como vai?", "E ai! Tudo certo?", "Hey! Que bom te ver!", "Opa! Tudo bem?",
              "Ola! Como ta?"}
        ELSE IF HasAny({"obrigado", "obrigada", "valeu", "thanks", "vlw"})
        THEN {"De nada! To aqui pra isso!", "Nada! Fico feliz em ajudar!", "Sempre!", "Tmj!",
              "Magina! Por nada!"}
        ELSE IF HasAny({"música", "musica", "cantar", "canção"})
        THEN {"Adoro musica! Que tipo vc curte?", "Musica e tudo! Qual seu estilo?",
              "Show! Me conta mais!", "Massa! Que musica vc gosta?"}
        ELSE IF HasAny({"jogo", "game", "jogar", "brincar"})
        THEN {"Jogos sao demais! Qual vc gosta?", "Legal! Que jogo vc joga?",
              "Adoro! Me fala mais!", "Show! Qual seu game favorito?"}
        ELSE {"Entendi! Me conta mais!", "Show! Como vc se sente sobre isso?",
              "Legal! O que mais vc quer compartilhar?", "Hmm, massa! Continua...",
              "Que interessante! Me fala mais!", "Saquei! E ai?", "Opa, legal! Me conta mais!",
              "Dahora! Como assim?"}

\* a generate_text that lets a failing call through
generate_text_raising(prompt, context, service) ==
    IF service.kind = "answers" THEN [raised : {FALSE}, text : {Strip(service.text)}]
    ELSE IF service.kind = "raises" THEN [raised : {TRUE}, text : {""}]
    ELSE [raised : {FALSE}, text : generate_smart_fallback(prompt, context)]

\* generate_text: what it may return, and whether it raises
generate_text(prompt, context, service) ==
    IF service.kind = "answers"
    THEN [raised : {FALSE}, text : {Strip(service.text)}]
    ELSE [raised : {FALSE}, text : generate_smart_fallback(prompt, context)]

\* MemoryStore.recall_intelligent(max_hours=24, min_interval_minutes=10) over
\* the local episodes: the newest first, and then those no more than the
\* interval before the one selected last.  The sort is stable and the
\* episodes are in the order of their times, so the newest are the last.
RECURSIVE SelectFrom(_, _, _)
SelectFrom(episodes, i, last_selected_time) ==
    IF i < 1 \/ episodes[i].timestamp < now - 24 * Hour THEN <<>>
    ELSE IF last_selected_time = NoTime
              \/ last_selected_time - episodes[i].timestamp <= 10 * Minute
    THEN <<episodes[i].text>> \o SelectFrom(episodes, i - 1, episodes[i].timestamp)
    ELSE SelectFrom(episodes, i - 1, last_selected_time)

recall_intelligent(episodes) == SelectFrom(episodes, Len(episodes), NoTime)

\* the situation VirtualPet._build_dynamic_prompt describes, the part of the
\* prompt the fallback reads
build_dynamic_prompt(last_message, recent_memories) ==
    IF Len(recent_memories) <= 1
    THEN "SITUACAO: Primeira vez conversando" \o NewLine
             \o "Mensagem: " \o Quote \o last_message \o Quote
    ELSE IF endswith(Strip(last_message), "?")
    THEN "SITUACAO: Pergunta do usuario" \o NewLine \o Quote \o last_message \o Quote
    ELSE "SITUACAO: Primeiras interacoes" \o NewLine
             \o "Mensagem: " \o Quote \o last_message \o Quote

TurnStart == turn = [pc |-> "idle", last_user_text |-> "", service |-> "none",
                     response |-> "", messages |-> 0, calls |-> 0]

\* pet.user_message(text): the episode of the message
PetUserMessage(text) ==
    /\ turn.pc \in {"idle", "replied"}
    /\ AddEpisode([text |-> text, salience |-> Scale \div 2,
                   importance_score |-> FallbackImportance(text)])
    /\ turn' = [turn EXCEPT !.pc = "messaged", !.last_user_text = text,
                            !.messages = @ + 1]

\* pet.pet_response(): the reply of generate_text to the prompt of the message
PetReply(service) ==
    /\ turn.pc = "messaged"
    /\ \E recent_memories \in {recall_intelligent(episodic)} :
       \E last_message \in {IF Len(recent_memories) > 0 THEN recent_memories[1]
                            ELSE "Primeira interacao"} :
       \E generated \in generate_text(build_dynamic_prompt(last_message, recent_memories),
                                      "", service) :
           turn' = [turn EXCEPT !.pc = IF generated.raised THEN "aborted" ELSE "replied",
                                !.service = service.kind,
                                !.response = generated.text]
    /\ last_op' = "pet_response"
    /\ UNCHANGED <<now, mem_vars>>

\* generate_text(prompt, context) called alone
GenerateText(prompt, context, service) ==
    /\ turn.pc \in {"idle", "replied"}
    /\ \E generated \in generate_text(prompt, context, service) :
           turn' = [turn EXCEPT !.service = service.kind, !.response = generated.text,
                                !.calls = @ + 1]
    /\ last_op' = "generate_text"
    /\ UNCHANGED <<now, mem_vars>>

-----------------------------------------------------------------------------
(* A PetState with its autobiographical memory, canon and echo patterns,     *)
(* serialized with pet_state_to_dict and restored with dict_to_pet_state.    *)

VARIABLES
    persisted   \* the last serialization: the keys of the data, what the state
                \* held and what the restored state holds

persist_vars == <<persisted>>

\* how many claims and patterns the state is given, and how often it is serialized
PersistClaims == 2

PersistPatterns == 1

MaxPersists == 1

PersistClaimInputs ==
    { [text |-> "Sou um pet virtual", claim_type |-> "C-PET",
       importance |-> (9 * Scale) \div 10],
      [text |-> "Eu posso cantar", claim_type |-> "TOOLS", importance |-> Scale \div 2] }

\* the keys of the dict pet_state_to_dict returns
SerializedKeys ==
    {"drives", "traits", "habits", "stage", "last_user_message", "personality_data",
     "communication_style", "relationship", "episodic", "semantic"}

\* what MemoryStore() makes of abm, canon and echo at time t: dict_to_pet_state
\* starts from it and sets none of the three
MemoryStorePostInit(t) ==
    [abm |-> <<>>, canon |-> NewCanon(t), echo |-> NewEchoTrace(DefaultMaxPatterns)]

\* dict_to_pet_state(data), the autobiographical part
restored_identity(data, t) == MemoryStorePostInit(t)

PersistStart ==
    persisted = [count |-> 0, keys |-> {},
                 saved |-> MemoryStorePostInit(0), restored |-> MemoryStorePostInit(0)]

\* data = pet_state_to_dict(state); restored_state = dict_to_pet_state(data)
PersistState ==
    \E data \in {pet_state_to_dict([episodic |-> episodic, semantic |-> semantic])} :
        /\ persisted' = [count |-> persisted.count + 1,
                         keys |-> SerializedKeys,
                         saved |-> [abm |-> abm, canon |-> canon, echo |-> echo],
                         restored |-> restored_identity(data, utcnow)]
        /\ last_op' = "persist"
        /\ UNCHANGED now

-----------------------------------------------------------------------------
(* A manager whose session is consolidated again and again.                 *)

VARIABLES
    session_log   \* how often consolidate_session ran since the last process_turn,
                  \* and what the manager held after the first of these runs

session_vars == <<session_log>>

\* how many turns are processed, how often the clock advances, and how often
\* consolidate_session runs without a turn in between
SessionTurns == 2

SessionTicks == 2

MaxSessionRuns == 3

\* the events, the commitments and the semantic facts of the manager
Held(events, commitments, facts) ==
    [events |-> events, commitments |-> commitments, facts |-> facts]

SessionStart == session_log = [runs |-> 0, after_first |-> Held(<<>>, <<>>, <<>>)]

\* manager.process_turn(...), a new session under way
ProcessTurnNoted(inp) ==
    /\ ProcessTurn(inp)
    /\ session_log' = [session_log EXCEPT !.runs = 0]

\* manager.consolidate_session(), what the manager holds after the first run noted
ConsolidateNoted ==
    /\ ConsolidateSession
    /\ session_log' =
           [runs |-> session_log.runs + 1,
            after_first |-> IF session_log.runs = 0
                            THEN Held(events_cache', commitments_cache', semantic_cache')
                            ELSE session_log.after_first]

-----------------------------------------------------------------------------
(* The relationship a MemoryStore keeps with its user, and the scores of    *)
(* the four components exercised one component at a time.                   *)

VARIABLES
    relationship,   \* MemoryStore.relationship
    exercised       \* the component whose operations are called

rel_vars == <<relationship, exercised>>

\* how often update_relationship is called
MaxInteractions == 12

\* a long message that names the pet and asks, a short one, and one that ends
\* with the words of a name pattern
RelationshipTexts == {"vou te chamar de rex, pode ser?", "oi", "te chamo de"}

name_patterns ==
    <<"vou te chamar de", "te chamar de", "seu nome é", "você se chama",
      "chamarei de", "chamarei você de", "te chamo de", "nome será">>

topic_keywords ==
    << [topic |-> "música", keywords |-> {"música", "cantar", "tocar", "banda", "artista", "bts"}],
       [topic |-> "comida", keywords |-> {"comer", "comida", "mate", "café", "bebida"}],
       [topic |-> "trabalho", keywords |-> {"trabalho", "job", "emprego", "estudar"}],
       [topic |-> "entretenimento", keywords |-> {"filme", "série", "jogo", "kpop", "video"}],
       [topic |-> "sentimentos", keywords |-> {"feliz", "triste", "bem", "mal", "cansado"}],
       [topic |-> "nome", keywords |-> {"nome", "chamar", "chamo"}] >>

\* no RelationshipMemory yet
NoRelationship ==
    [met |-> FALSE, first_meeting |-> NoTime, total_interactions |-> 0,
     last_interaction |-> NoTime, familiarity_level |-> 0, conversation_topics |-> <<>>,
     relationship_stage |-> "stranger", pet_name |-> "", greeting_phase_completed |-> FALSE,
     raised |-> FALSE]

\* str.capitalize
Capitalize(s) ==
    LET UpperCh(c) == IF \E k \in 1..26 : LowerCase[k] = c
                      THEN UpperCase[CHOOSE k \in 1..26 : LowerCase[k] = c]
                      ELSE c
    IN  IF s = "" THEN "" ELSE UpperCh(Ch(s, 1)) \o Lower(SubSeq(s, 2, Len(s)))

\* an update_relationship whose familiarity grows without a limit
familiarity_unlimited(level, text) ==
    LET lower_message == Lower(text)
        named == \E k \in 1..Len(name_patterns) : Contains(lower_message, name_patterns[k])
    IN  level + (2 * Scale) \div 100
              + (IF Len(text) > 20 THEN (3 * Scale) \div 100 ELSE Scale \div 100)
              + (IF named THEN (5 * Scale) \div 100 ELSE 0)
              + (IF Contains(text, "?") THEN (2 * Scale) \div 100 ELSE 0)

\* the familiarity update_relationship gives an existing relationship
familiarity_after(level, text) == Min(Scale, familiarity_unlimited(level, text))

\* MemoryStore.update_relationship(text) at time t: the relationship afterwards;
\* `raised` when the words after the name pattern are missing and
\* parts[1].strip().split()[0] raises IndexError
update_relationship(rel, text, t) ==
    LET lower_message == Lower(text)
        started ==
            IF ~rel.met
            THEN [NoRelationship EXCEPT !.met = TRUE, !.first_meeting = t,
                                        !.total_interactions = 1, !.last_interaction = t]
            ELSE [rel EXCEPT !.total_interactions = @ + 1,
                             !.last_interaction = t,
                             !.familiarity_level = familiarity_after(@, text),
                             !.raised = FALSE]
        Named == {k \in 1..Len(name_patterns) : Contains(lower_message, name_patterns[k])}
        \* the loop over the patterns: the first that gives a name, or that raises
        RECURSIVE NameFrom(_)
        NameFrom(k) ==
            IF k > Len(name_patterns) THEN [raised |-> FALSE, name |-> ""]
            ELSE IF k \notin Named THEN NameFrom(k + 1)
            ELSE LET words == Split(Strip(SplitSecond(lower_message, name_patterns[k])))
                 IN  IF words = <<>> THEN [raised |-> TRUE, name |-> ""]
                     ELSE IF Len(words[1]) > 1
                     THEN [raised |-> FALSE, name |-> Capitalize(words[1])]
                     ELSE NameFrom(k + 1)
        named == NameFrom(1)
        RECURSIVE TopicsFrom(_, _)
        TopicsFrom(k, topics) ==
            IF k > Len(topic_keywords) THEN topics
            ELSE IF /\ \E w \in topic_keywords[k].keywords : Contains(lower_message, w)
                    /\ \A i \in 1..Len(topics) : topics[i] # topic_keywords[k].topic
                 THEN TopicsFrom(k + 1, Append(topics, topic_keywords[k].topic))
                 ELSE TopicsFrom(k + 1, topics)
        level == started.familiarity_level
    IN  IF named.raised THEN [started EXCEPT !.raised = TRUE]
        ELSE [started EXCEPT
                 !.pet_name = IF named.name # "" THEN named.name ELSE @,
                 !.conversation_topics = TopicsFrom(1, @),
                 !.relationship_stage =
                     IF level >= (4 * Scale) \div 10 THEN "close_friend"
                     ELSE IF level >= (2 * Scale) \div 10 THEN "friend"
                     ELSE IF level >= (5 * Scale) \div 100 THEN "acquaintance"
                     ELSE @,
                 !.greeting_phase_completed =
                     IF started.total_interactions >= 2 THEN TRUE ELSE @]

RelStart == relationship = NoRelationship /\ exercised = "none"

\* the operations of one component only are called on a state
Exercising(component) == exercised \in {"none", component} /\ exercised' = component

\* store.update_relationship(text)
UpdateRelationship(text) ==
    /\ relationship' = update_relationship(relationship, text, now)
    /\ last_op' = "update_relationship"
    /\ UNCHANGED now

-----------------------------------------------------------------------------
(* A MemoryStore whose facts are written in a known order and recalled.     *)

VARIABLES
    fact_order,   \* the keys of store.semantic in the order of their insertion
    recalled      \* the last call of recall: its arguments, the store before it
                  \* and what it returned

recall_vars == <<fact_order, recalled>>

\* how many facts are written, how many recalls made, how many episodes added
MaxFactsWritten == 3

MaxRecallsNoted == 1

RecallEpisodes == 1

\* the episode added before a recall with no query
EpisodesRecalled ==
    { [text |-> "oi", salience |-> Scale \div 2, importance_score |-> Scale \div 2] }

\* the facts written: texts inside one another, and weights that tie
FactsWritten ==
    [key : {"cafe", "cafe com leite", "gosto de cafe", "cha"},
     weight : {(3 * Scale) \div 10, (7 * Scale) \div 10}]

\* recall(query, top_k): no query, a query in capitals and with blanks around it
\* that is inside facts, a query that facts are inside of, a query nothing matches
RecallInputs ==
    [query : {"", " Cafe ", "gosto de cafe com leite", "suco"}, top_k : {1, 3}]

\* the facts a query matches, in the order of the dict
recall_matches(facts, order, query) ==
    LET key == Strip(Lower(query))
    IN  SelectSeq(order, LAMBDA text : Contains(text, key) \/ Contains(key, text))

\* what MemoryStore.recall returns, with no time window
recall_returned(episodes, facts, order, query, top_k) ==
    IF query # ""
    THEN LET matches == recall_matches(facts, order, query)
             weights == [i \in 1..Len(matches) |-> facts[matches[i]].weight]
         IN  Prefix(SortByScore(matches, weights), top_k)
    ELSE LET recent == SubSeq(episodes, Max(1, Len(episodes) - top_k + 1), Len(episodes))
         IN  [i \in 1..Len(recent) |-> recent[Len(recent) + 1 - i].text]

RecallStart ==
    /\ fact_order = <<>>
    /\ recalled = [count |-> 0, query |-> "", top_k |-> 0, before |-> EmptyDict,
                   returned |-> <<>>]

\* store.semantic[key] = (weight, utcnow(), 1)
WriteFact(inp) ==
    /\ semantic' = DictSet(semantic, inp.key,
                           [weight |-> inp.weight, last_reinforced |-> now,
                            access_count |-> 1])
    /\ fact_order' = IF inp.key \in DOMAIN semantic THEN fact_order
                     ELSE Append(fact_order, inp.key)
    /\ last_op' = "write_fact"
    /\ UNCHANGED <<now, episodic, abm_items, retrieved, mem_log, store_log, recalled>>

\* store.recall(query, top_k), the store before it and the list returned noted down
RecallNoted(inp) ==
    /\ Recall(inp.query)
    /\ recalled' = [count |-> recalled.count + 1, query |-> inp.query,
                    top_k |-> inp.top_k, before |-> semantic,
                    returned |-> recall_returned(episodic, semantic, fact_order,
                                                 inp.query, inp.top_k)]
    /\ UNCHANGED fact_order

-----------------------------------------------------------------------------
(* An EventSegmenter whose turns are made into events, with and without a   *)
(* summarizer.                                                              *)

VARIABLES
    made   \* the last call of create_event: the segmenter before it, and what it
           \* returned

ev_vars == <<made>>

\* how many turns are added, and how often create_event is called
EventTurns == 4

MaxEventsMade == 2

\* how often the clock advances between the turns
EventTicks == 2

RECURSIVE Repeated(_, _)
Repeated(s, n) == IF n = 0 THEN "" ELSE s \o Repeated(s, n - 1)

\* a user message of 60 characters
LongMessage == Repeated("mensagem ", 6) \o "longa."

\* the (user message, embedding) of the turns added
EventTurnInputs ==
    { [user_msg |-> "oi", embedding |-> NoEmbedding],
      [user_msg |-> LongMessage, embedding |-> <<1, 0>>] }

\* dict.get(key, default)
DictGet(d, key, default) == IF key \in DOMAIN d THEN d[key] ELSE default

\* no summarizer_fn; one that returns a title of 100 and a summary of 600
\* characters; one that returns an empty dict
Summarizers ==
    { [given |-> FALSE, data |-> [key \in {} |-> ""]],
      [given |-> TRUE,
       data |-> [key \in {"title", "summary"} |->
                     IF key = "title" THEN Repeated("Combinamos ", 9) \o "."
                     ELSE Repeated("resumo ", 85) \o "fim d"]],
      [given |-> TRUE, data |-> [key \in {} |-> ""]] }

\* no EventRecord
NoEvent ==
    [event_id |-> "", title |-> "", time_range |-> <<NoTime, NoTime>>, summary |-> "",
     salience |-> 0]

\* a create_event that takes the summarizer's title and summary as they are
create_event_untruncated(turns, event_id, summarizer) ==
    [event_id   |-> event_id,
     title      |-> IF summarizer.given
                    THEN DictGet(summarizer.data, "title", "Conversa")
                    ELSE create_event(turns, event_id).title,
     time_range |-> <<turns[1].timestamp, turns[Len(turns)].timestamp>>,
     summary    |-> IF summarizer.given
                    THEN DictGet(summarizer.data, "summary", "")
                    ELSE create_event(turns, event_id).summary,
     salience   |-> Scale \div 2]

\* the EventRecord EventSegmenter.create_event makes of turns that are not empty
create_event_with(turns, event_id, summarizer) ==
    IF summarizer.given
    THEN [event_id   |-> event_id,
          title      |-> Prefix(DictGet(summarizer.data, "title", "Conversa"), 80),
          time_range |-> <<turns[1].timestamp, turns[Len(turns)].timestamp>>,
          summary    |-> Prefix(DictGet(summarizer.data, "summary", ""), 500),
          salience   |-> Scale \div 2]
    ELSE create_event(turns, event_id)

EventStart ==
    made = [count |-> 0, turns |-> <<>>, last_embedding |-> NoEmbedding,
            last_timestamp |-> NoTime, none |-> FALSE, event |-> NoEvent]

\* segmenter.add_turn(user_msg, "Response", utcnow(), embedding)
AddTurn(user_msg, embedding) ==
    /\ current_turns' =
           Append(current_turns, [user |-> user_msg, pet |-> "Response",
                                  timestamp |-> now, embedding |-> embedding])
    /\ last_timestamp' = now
    /\ last_embedding' = IF embedding # NoEmbedding THEN embedding ELSE last_embedding
    /\ used' = [used EXCEPT !.turns = @ + 1]
    /\ last_op' = "add_turn"
    /\ UNCHANGED <<now, made>>

\* segmenter.create_event("test-event", summarizer_fn)
CreateEvent(summarizer) ==
    /\ IF current_turns = <<>>
       THEN /\ made' = [count |-> made.count + 1, turns |-> current_turns,
                        last_embedding |-> last_embedding,
                        last_timestamp |-> last_timestamp,
                        none |-> TRUE, event |-> NoEvent]
            /\ UNCHANGED <<current_turns, last_embedding, last_timestamp>>
       ELSE /\ made' = [count |-> made.count + 1, turns |-> current_turns,
                        last_embedding |-> last_embedding,
                        last_timestamp |-> last_timestamp,
                        none |-> FALSE,
                        event |-> create_event_with(current_turns, "test-event",
                                                    summarizer)]
            /\ current_turns' = <<>>
            /\ last_embedding' = NoEmbedding
            /\ last_timestamp' = NoTime
    /\ last_op' = "create_event"
    /\ UNCHANGED <<now, used>>

-----------------------------------------------------------------------------
(* An AutobiographicalMemory that takes claims, extracts claims from the    *)
(* pet's responses and revises claims, every revision noted down.           *)

VARIABLES
    abm_log   \* how many responses were given, and the last call of
              \* revise_claim: its arguments and the items before it

rev_vars == <<abm_log>>

\* how many claims are added, how many revised, how many responses given
NotedClaims == 2

NotedRevisions == 2

NotedExtracts == 1

\* add_claim(text, claim_type, source_event_id, importance)
NotedClaimInputs ==
    { [text |-> "Eu posso cantar", claim_type |-> "TOOLS", importance |-> Scale \div 2],
      [text |-> "Eu posso ler", claim_type |-> "TOOLS", importance |-> (7 * Scale) \div 10],
      [text |-> "Sou um pet", claim_type |-> "C-PET", importance |-> Scale \div 2],
      [text |-> LongText, claim_type |-> "TOOLS", importance |-> Scale \div 2] }

\* revise_claim(old_text, new_text, reason, source_event_id): into the text of
\* another claim, into a text of 151 characters, and of a claim never made
NotedRevisionInputs ==
    { [old_text |-> "posso cantar", new_text |-> "Eu posso ler", reason |-> "aprendi"],
      [old_text |-> "POSSO", new_text |-> LongText, reason |-> "mudei"],
      [old_text |-> "nadar", new_text |-> "Eu posso voar", reason |-> "sonhei"] }

\* the responses claims are extracted from: a sentence of 151 characters, short
\* sentences of several patterns, a sentence too short to be a claim
AbmResponses ==
    { LongText \o ". evito doces",
      "Eu posso. Sou um pet feliz. Vou te ajudar, eu posso",
      "Evito. Mas evito dietas" }

\* all_patterns of extract_from_response
all_patterns ==
    << [pattern |-> "eu posso", claim_type |-> "C-PET"],
       [pattern |-> "eu não posso", claim_type |-> "C-PET"],
       [pattern |-> "não tenho acesso", claim_type |-> "C-PET"],
       [pattern |-> "meu papel é", claim_type |-> "C-PET"],
       [pattern |-> "sou um", claim_type |-> "C-PET"],
       [pattern |-> "vou sempre", claim_type |-> "C&C-PERSONA"],
       [pattern |-> "vou te", claim_type |-> "C&C-PERSONA"],
       [pattern |-> "sempre confirmo", claim_type |-> "C&C-PERSONA"],
       [pattern |-> "nunca vou", claim_type |-> "C&C-PERSONA"],
       [pattern |-> "não dou conselho", claim_type |-> "POLICY"],
       [pattern |-> "não faço", claim_type |-> "POLICY"],
       [pattern |-> "evito", claim_type |-> "POLICY"] >>

\* the claim extract_from_response makes for a pattern: the first sentence with
\* the pattern that has more than 5 characters, "" when there is none
RECURSIVE ClaimSentence(_, _)
ClaimSentence(sentences, pattern) ==
    IF sentences = <<>> THEN ""
    ELSE IF Contains(Lower(Head(sentences)), pattern) /\ Len(Strip(Head(sentences))) > 5
         THEN Strip(Head(sentences))
         ELSE ClaimSentence(Tail(sentences), pattern)

\* the loop of extract_from_response from pattern k on
RECURSIVE ExtractFrom(_, _, _, _)
ExtractFrom(k, items, response, t) ==
    IF k > Len(all_patterns) THEN items
    ELSE LET claim_text == ClaimSentence(SplitDots(response), all_patterns[k].pattern)
         IN  IF Contains(Lower(response), all_patterns[k].pattern) /\ claim_text # ""
             THEN ExtractFrom(k + 1,
                              add_claim_stable(items, claim_text,
                                               all_patterns[k].claim_type,
                                               (7 * Scale) \div 10, (9 * Scale) \div 10, t),
                              response, t)
             ELSE ExtractFrom(k + 1, items, response, t)

\* AutobiographicalMemory.extract_from_response at t: the items afterwards
abm_extract_from_response(items, response, t) == ExtractFrom(1, items, response, t)

NotRevised ==
    [extracts |-> 0, revisions |-> 0, old_text |-> "", new_text |-> "", reason |-> "",
     before |-> <<>>]

RevisionStart == abm_log = NotRevised

\* abm.extract_from_response(response, event_id)
AbmExtract(response) ==
    \E items \in {abm_extract_from_response(abm, response, utcnow)} :
        /\ abm' = items
        /\ utcnow' = utcnow + 1
        /\ result' = [op |-> "extract_from_response", value |-> items # abm]
        /\ abm_log' = [abm_log EXCEPT !.extracts = @ + 1]
        /\ UNCHANGED <<canon, calls>>

\* abm.revise_claim(inp.old_text, inp.new_text, inp.reason, event_id), the call
\* noted down
AbmReviseNoted(inp) ==
    /\ AbmReviseClaim(inp)
    /\ abm_log' = [abm_log EXCEPT !.revisions = @ + 1, !.old_text = inp.old_text,
                                  !.new_text = inp.new_text, !.reason = inp.reason,
                                  !.before = abm]

-----------------------------------------------------------------------------
(* A manager whose stream of turns is logged: every turn passed to          *)
(* process_turn, and every segment closed into an event.                    *)

VARIABLES
    turn_log   \* the turns passed to process_turn, and the segments closed, each
               \* with the operation that closed it and the event made of it

stream_vars == <<turn_log>>

\* the turns, clock steps and consolidations of a short session
HeldTurns == 5

HeldTicks == 1

HeldRuns == 2

\* the turns and clock steps of a long stream
StreamTurns == 11

StreamTicks == 1

\* the turns of a long stream: those with an embedding
StreamInputs == {inp \in TurnInputs : inp.embedding # NoEmbedding}

StreamStart == turn_log = [passed |-> <<>>, closed |-> <<>>]

\* manager.process_turn(...), the turn and the segment it closes logged
ProcessTurnLogged(inp) ==
    /\ ProcessTurn(inp)
    /\ \E segment \in {should_segment(current_turns, last_embedding, last_timestamp,
                                      inp.embedding, now)} :
           turn_log' =
               [passed |-> Append(turn_log.passed,
                                  [user |-> inp.user, pet |-> inp.pet, timestamp |-> now,
                                   embedding |-> inp.embedding]),
                closed |-> IF segment
                           THEN Append(turn_log.closed,
                                       [by |-> "process_turn", turns |-> current_turns,
                                        title |-> create_event(current_turns, 0).title])
                           ELSE turn_log.closed]

\* manager.consolidate_session(), the segment it closes logged
ConsolidateLogged ==
    /\ ConsolidateSession
    /\ turn_log' =
           [turn_log EXCEPT
               !.closed = IF session_turns # <<>> /\ current_turns # <<>>
                          THEN Append(@, [by |-> "consolidate_session",
                                          turns |-> current_turns,
                                          title |-> create_event(current_turns, 0).title])
                          ELSE @]

-----------------------------------------------------------------------------
(* A canon updated from an autobiographical memory whose claims are revised *)
(* into claims of another kind.                                             *)

\* how many claims are added, how many revised, how often the canon is updated
DerivedClaims == 2

DerivedRevisions == 1

DerivedUpdates == 2

\* a capability, a principle, a commitment, and a capability too weak to be listed
DerivedClaimInputs ==
    { [text |-> "Eu posso cantar", claim_type |-> "TOOLS", importance |-> Scale \div 2],
      [text |-> "evito dieta", claim_type |-> "POLICY", importance |-> Scale \div 2],
      [text |-> "vou sempre te ouvir", claim_type |-> "C&C-PERSONA",
       importance |-> Scale \div 2],
      [text |-> "Eu posso ler", claim_type |-> "C-PET", importance |-> (3 * Scale) \div 10] }

\* a capability revised into another capability and into a claim that names none,
\* a principle revised into another
DerivedRevisionInputs ==
    { [old_text |-> "posso cantar", new_text |-> "Eu posso nadar", reason |-> "aprendi"],
      [old_text |-> "posso cantar", new_text |-> "Eu gosto de cantar", reason |-> "mudei"],
      [old_text |-> "evito", new_text |-> "como de tudo", reason |-> "mudei"] }

-----------------------------------------------------------------------------
(* Commitments marked done more than once                                   *)

\* how many turns are processed, how often a commitment is marked done, how often
\* the clock advances and how often the manager is built again
MarkedTurns == 2

MarkedMarks == 3

MarkedTicks == 1

MarkedRestarts == 1

-----------------------------------------------------------------------------
(* The commitments listed for a prompt, for display and in a daily digest   *)

\* how many turns with a promise are processed and how many marks are made
DoneTurns == 7

DoneMarks == 2

\* the default max_tokens of retrieve_context
DefaultMaxTokens == 1200

\* the turns whose reply holds a promise
DoneInputs == {inp \in TurnInputs : Detected[inp].commitment # None}

\* the budgets the context is asked for
DoneBudgets == {0, MaxBudget, DefaultMaxTokens}

\* HybridMemoryStore.get_active_commitments
get_active_commitments(cache) ==
    LET Active(c) == c.status = "active"
        Desc(c)   == c.desc
    IN  MapSeq(SelectSeq(cache, Active), Desc)

\* the active commitments of the digest generate_daily_digest builds: the first
\* five; no commitment has a due date
digest_active_commitments(cache) ==
    LET Active(c) == c.status = "active"
        Desc(c)   == c.desc
    IN  Prefix(MapSeq(SelectSeq(cache, Active), Desc), 5)

-----------------------------------------------------------------------------
(* Specifications                                                          *)

\* what belongs to the manager alone
mgr_own == <<next_id, firestore_client, fs_events, fs_commitments, fs_semantic,
             session_turns, current_turns, last_embedding, last_timestamp,
             events_cache, commitments_cache, semantic_cache, metrics, used>>

\* the manager's variables that no other component uses
mgr_only == <<firestore_client, fs_events, fs_commitments, fs_semantic,
              session_turns, current_turns, last_embedding, last_timestamp,
              events_cache, commitments_cache, semantic_cache, metrics, used>>

\* the components added to the manager, the memory and the server
further_vars == <<users_vars, canon_vars, guard_vars, seg_vars, buf_vars, echo_vars, store_vars, decay_vars, sal_vars, turn_vars, persist_vars, session_vars, rel_vars, recall_vars, ev_vars, rev_vars, stream_vars>>

FurtherStart == UsersStart /\ CanonStart /\ GuardStart /\ SegmenterStart /\ BufferStart /\ EchoStart /\ StoreStart /\ DecayStart /\ SalienceStart /\ TurnStart /\ PersistStart /\ SessionStart /\ RelStart /\ RecallStart /\ EventStart /\ RevisionStart /\ StreamStart

vars == <<mgr_vars, mem_vars, server_vars, further_vars>>

\* everything but the manager, but the memory, but the server
beside_mgr == <<mem_vars, server_vars, further_vars>>

beside_mem == <<mgr_own, server_vars, further_vars>>

beside_server == <<mgr_own, mem_vars, further_vars>>

\* an AdvancedMemoryManager over the full set of turns
Init == MgrInit /\ MemInit /\ use_enhanced_memory = TRUE /\ ServerStart /\ FurtherStart

Next ==
    \/ \E d \in TickSteps : used.ticks < MaxTicks /\ Tick(d) /\ UNCHANGED beside_mgr
    \/ \E inp \in TurnInputs :
           used.turns < MaxTurns /\ ProcessTurn(inp) /\ UNCHANGED beside_mgr
    \/ \E id \in CommitmentIds :
           used.marks < MaxMarks /\ MarkCommitmentDone(id) /\ UNCHANGED beside_mgr
    \/ ConsolidateSession /\ UNCHANGED beside_mgr
    \/ used.restarts < MaxRestarts /\ Restart /\ UNCHANGED beside_mgr

Spec == Init /\ [][Next]_vars

\* one manager instance, over the turns and clock steps of the commitment life cycle
LifecycleNext ==
    \/ \E d \in LifecycleTickSteps :
           used.ticks < LifecycleTicks /\ Tick(d) /\ UNCHANGED beside_mgr
    \/ \E inp \in LifecycleInputs :
           used.turns < LifecycleTurns /\ ProcessTurn(inp) /\ UNCHANGED beside_mgr
    \/ \E id \in CommitmentIds :
           used.marks < LifecycleMarks /\ MarkCommitmentDone(id) /\ UNCHANGED beside_mgr
    \/ ConsolidateSession /\ UNCHANGED beside_mgr

LifecycleSpec == Init /\ [][LifecycleNext]_vars

\* every component at its start, the manager without a Firestore client
Start ==
    MgrStart /\ firestore_client = FALSE /\ MemInit /\ use_enhanced_memory = TRUE
        /\ ServerStart /\ FurtherStart

\* the memory of one pet: episodes, consolidation, claims, retrieval
MemoryInit == Start

MemoryNext ==
    \/ \E inp \in EpisodeInputs :
           mem_log.episodes < MaxEpisodes /\ AddEpisode(inp) /\ UNCHANGED beside_mem
    \/ \E threshold \in Thresholds :
           mem_log.consolidations < MaxConsolidations /\ Consolidate(threshold)
               /\ UNCHANGED beside_mem
    \/ \E inp \in ClaimInputs :
           mem_log.claims < MaxClaims /\ AddClaim(inp) /\ UNCHANGED beside_mem
    \/ \E token_budget \in 0..MaxTokenBudget :
           mem_log.retrievals < MaxRetrievals /\ Retrieve(token_budget)
               /\ UNCHANGED beside_mem

MemorySpec == MemoryInit /\ [][MemoryNext]_vars

\* the webhook server with either memory mode
WebhookInit ==
    MgrStart /\ firestore_client = FALSE /\ MemInit /\ ServerInit /\ FurtherStart

WebhookNext ==
    \/ \E user_id \in Users, message \in Messages :
           Len(requests) < MaxRequests /\ Receive(user_id, message)
               /\ UNCHANGED beside_server
    \/ \E r \in 1..Len(requests) : Load(r) /\ UNCHANGED beside_server
    \/ \E r \in 1..Len(requests) : UserMessage(r) /\ UNCHANGED beside_server
    \/ \E r \in 1..Len(requests) : PetResponse(r) /\ UNCHANGED beside_server
    \/ \E r \in 1..Len(requests) : Save(r) /\ UNCHANGED beside_server

WebhookSpec == WebhookInit /\ [][WebhookNext]_vars

\* the managers of several users over one Firestore, and the pets stored per user
users_frame == <<mgr_only, mem_vars, use_enhanced_memory, requests, running, canon_vars, guard_vars, seg_vars, buf_vars, echo_vars, store_vars, decay_vars, sal_vars, turn_vars, persist_vars, session_vars, rel_vars, recall_vars, ev_vars, rev_vars, stream_vars>>

UsersNext ==
    \/ \E user_id \in Users, inp \in UserTurnInputs :
           ops < MaxUserOps /\ UserProcessTurn(user_id, inp) /\ UNCHANGED users_frame
    \/ \E user_id \in Users :
           \E id \in UserCommitmentIds(user_id) :
               ops < MaxUserOps /\ UserMarkCommitmentDone(user_id, id)
                   /\ UNCHANGED users_frame
    \/ \E user_id \in Users :
           ops < MaxUserOps /\ UserConsolidateSession(user_id) /\ UNCHANGED users_frame
    \/ \E user_id \in Users, state \in SavedStates :
           ops < MaxUserOps /\ SavePetData(user_id, state) /\ UNCHANGED users_frame

UsersSpec == Start /\ [][UsersNext]_vars

\* what no operation on the autobiographical memory and the canon touches
canon_frame == <<now, last_op, mgr_own, mem_vars, server_vars, users_vars, guard_vars, seg_vars, buf_vars, echo_vars, store_vars, decay_vars, sal_vars, turn_vars, persist_vars, session_vars, rel_vars, recall_vars, ev_vars, rev_vars, stream_vars>>

\* an autobiographical memory that takes claims and revisions
AbmNext ==
    \/ \E inp \in AbmClaimInputs :
           calls.add_claim < AbmClaims /\ AbmAddClaim(inp) /\ UNCHANGED canon_frame
    \/ \E inp \in RevisionInputs :
           calls.revise_claim < AbmRevisions /\ AbmReviseClaim(inp)
               /\ UNCHANGED canon_frame

AbmSpec == Start /\ [][AbmNext]_vars

\* a canon kept over an autobiographical memory
CanonNext ==
    \/ \E inp \in CanonClaimInputs :
           calls.add_claim < CanonClaims /\ AbmAddClaim(inp) /\ UNCHANGED canon_frame
    \/ \E inp \in RevisionInputs :
           calls.revise_claim < CanonRevisions /\ AbmReviseClaim(inp)
               /\ UNCHANGED canon_frame
    \/ calls.update_from_abm < CanonUpdates /\ UpdateFromAbm /\ UNCHANGED canon_frame
    \/ NeedsUpdate /\ UNCHANGED canon_frame

CanonSpec == Start /\ [][CanonNext]_vars

\* what no operation of the guard touches
guard_frame == <<mgr_vars, mem_vars, server_vars, users_vars, canon_vars, seg_vars, buf_vars, echo_vars, store_vars, decay_vars, sal_vars, turn_vars, persist_vars, session_vars, rel_vars, recall_vars, ev_vars, rev_vars, stream_vars>>

\* a guard over an ABM that takes claims, checking and correcting drafts
GuardNext ==
    \/ \E k \in DOMAIN GuardClaims :
           Len(guard_claims) < MaxGuardClaims /\ GuardAddClaim(k) /\ UNCHANGED guard_frame
    \/ \E d \in DOMAIN Drafts, with_canon \in BOOLEAN :
           check_count < MaxChecks /\ CheckResponse(d, with_canon)
               /\ UNCHANGED guard_frame
    \/ CorrectResponse /\ UNCHANGED guard_frame

GuardSpec == Start /\ [][GuardNext]_vars

\* what no operation of a segmenter on its own touches
seg_frame == <<next_id, firestore_client, fs_events, fs_commitments, fs_semantic,
               session_turns, events_cache, commitments_cache, semantic_cache, metrics,
               mem_vars, server_vars, users_vars, canon_vars, guard_vars, buf_vars, echo_vars, store_vars, decay_vars, sal_vars, turn_vars, persist_vars, session_vars, rel_vars, recall_vars, ev_vars, rev_vars, stream_vars>>

\* a segmenter that is given turns, asked whether to segment, and made to segment
SegmenterNext ==
    \/ \E embedding \in TurnEmbeddings :
           used.turns < SegmenterTurns /\ SegAddTurn(embedding) /\ UNCHANGED seg_frame
    \/ \E new_embedding \in NewEmbeddings, gap \in Gaps :
           SegShouldSegment(new_embedding, gap) /\ UNCHANGED seg_frame
    \/ SegCreateEvent /\ UNCHANGED seg_frame

SegmenterSpec == Start /\ [][SegmenterNext]_vars

\* what add_episode leaves alone
buffer_frame == <<mgr_own, server_vars, users_vars, canon_vars, guard_vars, seg_vars, echo_vars, store_vars, decay_vars, sal_vars, turn_vars, persist_vars, session_vars, rel_vars, recall_vars, ev_vars, rev_vars, stream_vars>>

\* a store that is given episodes only
BufferNext ==
    \E inp \in BufferInputs :
        /\ Len(added) < BufferEpisodes
        /\ inp.text = "oi" \/ Cardinality(Marked(added)) < BufferMarked
        /\ BufAddEpisode(inp)
        /\ UNCHANGED buffer_frame

BufferSpec == Start /\ [][BufferNext]_vars

\* what no operation of an EchoTrace touches
echo_frame == <<next_id, mgr_only, mem_vars, server_vars, users_vars, canon_vars, guard_vars, seg_vars, buf_vars, store_vars, decay_vars, sal_vars, turn_vars, persist_vars, session_vars, rel_vars, recall_vars, ev_vars, rev_vars, stream_vars>>

\* EchoTraces of small capacities that are given patterns and responses
EchoNext ==
    \/ \E max_patterns \in 0..MaxEchoCapacity :
           echo_calls < EchoCalls /\ EchoCreate(max_patterns) /\ UNCHANGED echo_frame
    \/ \E inp \in PatternInputs :
           echo_calls < EchoCalls /\ EchoAddPattern(inp) /\ UNCHANGED echo_frame
    \/ \E response \in Responses, user_reaction_positive \in BOOLEAN :
           echo_calls < EchoCalls /\ EchoExtract(response, user_reaction_positive)
               /\ UNCHANGED echo_frame

EchoSpec == Start /\ [][EchoNext]_vars

\* a pet whose store is given episodes and consolidated, and whose manager, with
\* a Firestore client, is given corrections and started again
FactsInit ==
    MgrStart /\ firestore_client = TRUE /\ MemInit /\ use_enhanced_memory = TRUE
        /\ ServerStart /\ FurtherStart

FactsNext ==
    \/ /\ mem_log.episodes < MaxFactEpisodes
       /\ mem_log.episodes < Len(FactEpisodes)
       /\ AddEpisode(FactEpisodes[mem_log.episodes + 1])
       /\ UNCHANGED beside_mem
    \/ \E threshold \in Thresholds :
           mem_log.consolidations < MaxConsolidations /\ Consolidate(threshold)
               /\ UNCHANGED beside_mem
    \/ /\ used.turns < MaxFactTurns
       /\ used.turns < Len(CorrectionTurns)
       /\ ProcessTurn(CorrectionTurns[used.turns + 1])
       /\ UNCHANGED beside_mgr
    \/ used.restarts < MaxRestarts /\ Restart /\ UNCHANGED beside_mgr

FactsSpec == FactsInit /\ [][FactsNext]_vars

\* what reinforcement, recall and decay leave alone
store_frame == <<mgr_own, server_vars, users_vars, canon_vars, guard_vars, seg_vars, buf_vars, echo_vars, decay_vars, sal_vars, turn_vars, persist_vars, session_vars, rel_vars, recall_vars, ev_vars, rev_vars, stream_vars>>

\* a store that is given episodes, consolidated, reinforced, queried and decayed
\* while time passes
StoreNext ==
    \/ \E d \in TickSteps : used.ticks < StoreTicks /\ Tick(d) /\ UNCHANGED beside_mgr
    \/ \E inp \in EpisodeInputs :
           mem_log.episodes < MaxEpisodes /\ AddEpisode(inp) /\ UNCHANGED beside_mem
    \/ \E threshold \in Thresholds :
           mem_log.consolidations < MaxConsolidations /\ Consolidate(threshold)
               /\ UNCHANGED beside_mem
    \/ \E inp \in ReinforceInputs :
           store_log.reinforcements < MaxReinforcements /\ ReinforceMemory(inp)
               /\ UNCHANGED store_frame
    \/ \E query \in RecallQueries :
           store_log.recalls < MaxRecalls /\ Recall(query) /\ UNCHANGED store_frame
    \/ \E hours_elapsed \in DecayHours :
           store_log.decays < MaxDecays /\ ApplyMemoryDecay(hours_elapsed)
               /\ UNCHANGED store_frame

StoreSpec == Start /\ [][StoreNext]_vars

\* what writing a fact and decaying leave alone
decay_frame == <<mgr_own, server_vars, users_vars, canon_vars, guard_vars, seg_vars, buf_vars, echo_vars, sal_vars, turn_vars, persist_vars, session_vars, rel_vars, recall_vars, ev_vars, rev_vars, stream_vars>>

\* a store whose facts are written as they are, and decayed after a while
DecayNext ==
    \/ \E d \in TickSteps : used.ticks < StoreTicks /\ Tick(d) /\ UNCHANGED beside_mgr
    \/ \E inp \in FactsSet :
           decay_log.sets < MaxFactsSet /\ SetFact(inp) /\ UNCHANGED decay_frame
    \/ \E hours_elapsed \in DecayHours :
           store_log.decays < MaxDecays /\ DecayNoted(hours_elapsed)
               /\ UNCHANGED decay_frame

DecaySpec == Start /\ [][DecayNext]_vars


\* what scoring an item leaves alone
sal_frame == <<mgr_own, mem_vars, server_vars, users_vars, canon_vars, guard_vars, seg_vars, buf_vars, echo_vars, store_vars, decay_vars, turn_vars, persist_vars, session_vars, rel_vars, recall_vars, ev_vars, rev_vars, stream_vars>>

\* a scorer scoring items while time passes
SalienceNext ==
    \/ \E d \in TickSteps : used.ticks < StoreTicks /\ Tick(d) /\ UNCHANGED beside_mgr
    \/ \E inp \in SalienceInputs :
           Len(scored) < MaxScored /\ CalculateSalience(inp) /\ UNCHANGED sal_frame

SalienceSpec == Start /\ [][SalienceNext]_vars

\* what a turn of the pet leaves alone
turn_frame == <<mgr_own, server_vars, users_vars, canon_vars, guard_vars, seg_vars, buf_vars, echo_vars, store_vars, decay_vars, sal_vars, persist_vars, session_vars, rel_vars, recall_vars, ev_vars, rev_vars, stream_vars>>

\* a pet that is sent messages and replies to each, and generate_text called alone
TurnNext ==
    \/ \E d \in TickSteps : used.ticks < StoreTicks /\ Tick(d) /\ UNCHANGED beside_mgr
    \/ \E text \in PetMessages :
           turn.messages < MaxPetTurns /\ PetUserMessage(text) /\ UNCHANGED turn_frame
    \/ \E service \in Services : PetReply(service) /\ UNCHANGED turn_frame
    \/ \E prompt \in DirectPrompts, context \in DirectContexts, service \in Services :
           turn.calls < MaxDirectCalls /\ GenerateText(prompt, context, service)
               /\ UNCHANGED turn_frame

TurnSpec == Start /\ [][TurnNext]_vars

\* what serializing and restoring leave alone
persist_frame == <<mgr_own, mem_vars, server_vars, users_vars, canon_vars, guard_vars, seg_vars, buf_vars, echo_vars, store_vars, decay_vars, sal_vars, turn_vars, session_vars, rel_vars, recall_vars, ev_vars, rev_vars, stream_vars>>

\* a state that is given claims and patterns, whose canon is updated, and that is
\* serialized and restored
PersistNext ==
    \/ \E inp \in PersistClaimInputs :
           calls.add_claim < PersistClaims /\ AbmAddClaim(inp) /\ UNCHANGED canon_frame
    \/ calls.update_from_abm < MaxPersists /\ UpdateFromAbm /\ UNCHANGED canon_frame
    \/ \E inp \in PatternInputs :
           echo_calls < PersistPatterns /\ EchoAddPattern(inp) /\ UNCHANGED echo_frame
    \/ persisted.count < MaxPersists /\ PersistState /\ UNCHANGED persist_frame

PersistSpec == Start /\ [][PersistNext]_vars

\* everything but the manager and the count of its consolidations
session_frame == <<mem_vars, server_vars, users_vars, canon_vars, guard_vars, seg_vars, buf_vars, echo_vars, store_vars, decay_vars, sal_vars, turn_vars, persist_vars, rel_vars, recall_vars, ev_vars, rev_vars, stream_vars>>

\* a manager that processes turns and consolidates its session repeatedly while
\* time passes
SessionNext ==
    \/ \E d \in LifecycleTickSteps :
           used.ticks < SessionTicks /\ Tick(d) /\ UNCHANGED beside_mgr
    \/ \E inp \in TurnInputs :
           used.turns < SessionTurns /\ ProcessTurnNoted(inp) /\ UNCHANGED session_frame
    \/ session_log.runs < MaxSessionRuns /\ ConsolidateNoted /\ UNCHANGED session_frame

SessionSpec == Init /\ [][SessionNext]_vars

\* a pet's memory whose semantic facts, claims, echo patterns or relationship are
\* worked on, one of the four on each state
ScoresNext ==
    \/ \E d \in TickSteps :
           /\ Exercising("semantic") /\ used.ticks < StoreTicks /\ Tick(d)
           /\ UNCHANGED <<relationship, mem_vars, server_vars, users_vars, canon_vars, guard_vars, seg_vars, buf_vars, echo_vars, store_vars, decay_vars, sal_vars, turn_vars, persist_vars, session_vars, recall_vars, ev_vars, rev_vars, stream_vars>>
    \/ \E inp \in EpisodeInputs :
           /\ Exercising("semantic") /\ mem_log.episodes < MaxEpisodes /\ AddEpisode(inp)
           /\ UNCHANGED <<relationship, mgr_own, server_vars, users_vars, canon_vars, guard_vars, seg_vars, buf_vars, echo_vars, store_vars, decay_vars, sal_vars, turn_vars, persist_vars, session_vars, recall_vars, ev_vars, rev_vars, stream_vars>>
    \/ \E threshold \in Thresholds :
           /\ Exercising("semantic") /\ mem_log.consolidations < MaxConsolidations
           /\ Consolidate(threshold)
           /\ UNCHANGED <<relationship, mgr_own, server_vars, users_vars, canon_vars, guard_vars, seg_vars, buf_vars, echo_vars, store_vars, decay_vars, sal_vars, turn_vars, persist_vars, session_vars, recall_vars, ev_vars, rev_vars, stream_vars>>
    \/ \E inp \in ReinforceInputs :
           /\ Exercising("semantic") /\ store_log.reinforcements < MaxReinforcements
           /\ ReinforceMemory(inp)
           /\ UNCHANGED <<relationship, mgr_own, server_vars, users_vars, canon_vars, guard_vars, seg_vars, buf_vars, echo_vars, decay_vars, sal_vars, turn_vars, persist_vars, session_vars, recall_vars, ev_vars, rev_vars, stream_vars>>
    \/ \E query \in RecallQueries :
           /\ Exercising("semantic") /\ store_log.recalls < MaxRecalls /\ Recall(query)
           /\ UNCHANGED <<relationship, mgr_own, server_vars, users_vars, canon_vars, guard_vars, seg_vars, buf_vars, echo_vars, decay_vars, sal_vars, turn_vars, persist_vars, session_vars, recall_vars, ev_vars, rev_vars, stream_vars>>
    \/ \E hours_elapsed \in DecayHours :
           /\ Exercising("semantic") /\ store_log.decays < MaxDecays
           /\ ApplyMemoryDecay(hours_elapsed)
           /\ UNCHANGED <<relationship, mgr_own, server_vars, users_vars, canon_vars, guard_vars, seg_vars, buf_vars, echo_vars, decay_vars, sal_vars, turn_vars, persist_vars, session_vars, recall_vars, ev_vars, rev_vars, stream_vars>>
    \/ \E inp \in AbmClaimInputs :
           /\ Exercising("abm") /\ calls.add_claim < AbmClaims /\ AbmAddClaim(inp)
           /\ UNCHANGED <<relationship, now, last_op, mgr_own, mem_vars,
                          server_vars, users_vars, guard_vars, seg_vars, buf_vars, echo_vars, store_vars, decay_vars, sal_vars, turn_vars, persist_vars, session_vars, recall_vars, ev_vars, rev_vars, stream_vars>>
    \/ \E inp \in PatternInputs :
           /\ Exercising("echo") /\ echo_calls < EchoCalls /\ EchoAddPattern(inp)
           /\ UNCHANGED <<relationship, mgr_own, mem_vars,
                          server_vars, users_vars, canon_vars, guard_vars, seg_vars, buf_vars, store_vars, decay_vars, sal_vars, turn_vars, persist_vars, session_vars, recall_vars, ev_vars, rev_vars, stream_vars>>
    \/ \E text \in RelationshipTexts :
           /\ Exercising("relationship")
           /\ relationship.total_interactions < MaxInteractions
           /\ UpdateRelationship(text)
           /\ UNCHANGED <<mgr_own, mem_vars, server_vars, users_vars, canon_vars, guard_vars, seg_vars, buf_vars, echo_vars, store_vars, decay_vars, sal_vars, turn_vars, persist_vars, session_vars, recall_vars, ev_vars, rev_vars, stream_vars>>

ScoresSpec == Start /\ [][ScoresNext]_vars

\* what writing a fact and recalling leave alone
recall_frame == <<mgr_own, server_vars, users_vars, canon_vars, guard_vars, seg_vars, buf_vars, echo_vars, decay_vars, sal_vars, turn_vars, persist_vars, session_vars, rel_vars, ev_vars, rev_vars, stream_vars>>

\* a store whose facts are written one after another and recalled while time passes
RecallNext ==
    \/ \E d \in {Hour} : used.ticks < StoreTicks /\ Tick(d) /\ UNCHANGED beside_mgr
    \/ \E inp \in EpisodesRecalled :
           mem_log.episodes < RecallEpisodes /\ AddEpisode(inp) /\ UNCHANGED beside_mem
    \/ \E inp \in FactsWritten :
           /\ Len(fact_order) < MaxFactsWritten /\ inp.key \notin DOMAIN semantic
           /\ WriteFact(inp) /\ UNCHANGED recall_frame
    \/ \E inp \in RecallInputs :
           recalled.count < MaxRecallsNoted /\ RecallNoted(inp) /\ UNCHANGED recall_frame

RecallSpec == Start /\ [][RecallNext]_vars

\* what no operation of a segmenter that makes events touches
event_frame == <<next_id, firestore_client, fs_events, fs_commitments, fs_semantic,
                 session_turns, events_cache, commitments_cache, semantic_cache, metrics,
                 mem_vars, server_vars, users_vars, canon_vars, guard_vars, buf_vars, echo_vars, store_vars, decay_vars, sal_vars, turn_vars, persist_vars, session_vars, rel_vars, recall_vars, rev_vars, stream_vars>>

\* a segmenter that is given turns while time passes and made to close its segment
EventNext ==
    \/ \E d \in {Minute} : used.ticks < EventTicks /\ Tick(d) /\ UNCHANGED beside_mgr
    \/ \E inp \in EventTurnInputs :
           used.turns < EventTurns /\ AddTurn(inp.user_msg, inp.embedding)
               /\ UNCHANGED <<asked, event_frame>>
    \/ \E summarizer \in Summarizers :
           made.count < MaxEventsMade /\ CreateEvent(summarizer)
               /\ UNCHANGED <<asked, event_frame>>

EventSpec == Start /\ [][EventNext]_vars

\* an autobiographical memory that takes claims, responses and revisions
RevisionNext ==
    \/ \E inp \in NotedClaimInputs :
           /\ calls.add_claim < NotedClaims /\ AbmAddClaim(inp)
           /\ UNCHANGED <<now, last_op, mgr_own, mem_vars,
                          server_vars, users_vars, guard_vars, seg_vars, buf_vars, echo_vars, store_vars, decay_vars, sal_vars, turn_vars, persist_vars, session_vars, rel_vars, recall_vars, ev_vars, rev_vars, stream_vars>>
    \/ \E response \in AbmResponses :
           /\ abm_log.extracts < NotedExtracts /\ AbmExtract(response)
           /\ UNCHANGED <<now, last_op, mgr_own, mem_vars,
                          server_vars, users_vars, guard_vars, seg_vars, buf_vars, echo_vars, store_vars, decay_vars, sal_vars, turn_vars, persist_vars, session_vars, rel_vars, recall_vars, ev_vars, stream_vars>>
    \/ \E inp \in NotedRevisionInputs :
           /\ abm_log.revisions < NotedRevisions /\ AbmReviseNoted(inp)
           /\ UNCHANGED <<now, last_op, mgr_own, mem_vars,
                          server_vars, users_vars, guard_vars, seg_vars, buf_vars, echo_vars, store_vars, decay_vars, sal_vars, turn_vars, persist_vars, session_vars, rel_vars, recall_vars, ev_vars, stream_vars>>

RevisionSpec == Start /\ [][RevisionNext]_vars

\* what the manager's operations leave alone when the stream is logged
stream_frame == <<mem_vars, server_vars, users_vars, canon_vars, guard_vars, seg_vars, buf_vars, echo_vars, store_vars, decay_vars, sal_vars, turn_vars, persist_vars, session_vars, rel_vars, recall_vars, ev_vars, rev_vars>>

\* a short session of any turns, consolidated while time passes
HeldNext ==
    \/ \E d \in TickSteps : used.ticks < HeldTicks /\ Tick(d) /\ UNCHANGED beside_mgr
    \/ \E inp \in TurnInputs :
           used.turns < HeldTurns /\ ProcessTurnLogged(inp) /\ UNCHANGED stream_frame
    \/ Len(turn_log.closed) < HeldRuns /\ ConsolidateLogged /\ UNCHANGED stream_frame

HeldSpec == Start /\ [][HeldNext]_vars

\* a long stream of turns with embeddings, with a pause of 11 minutes
StreamNext ==
    \/ \E d \in {11 * Minute} :
           used.ticks < StreamTicks /\ Tick(d) /\ UNCHANGED beside_mgr
    \/ \E inp \in StreamInputs :
           used.turns < StreamTurns /\ ProcessTurnLogged(inp) /\ UNCHANGED stream_frame

StreamSpec == Start /\ [][StreamNext]_vars

\* a canon updated before and after the claims of its memory are revised
DerivedNext ==
    \/ \E inp \in DerivedClaimInputs :
           calls.add_claim < DerivedClaims /\ AbmAddClaim(inp) /\ UNCHANGED canon_frame
    \/ \E inp \in DerivedRevisionInputs :
           calls.revise_claim < DerivedRevisions /\ AbmReviseClaim(inp)
               /\ UNCHANGED canon_frame
    \/ calls.update_from_abm < DerivedUpdates /\ UpdateFromAbm /\ UNCHANGED canon_frame

DerivedSpec == Start /\ [][DerivedNext]_vars

\* one manager whose commitments are marked done again and again
MarkedNext ==
    \/ \E d \in LifecycleTickSteps :
           used.ticks < MarkedTicks /\ Tick(d) /\ UNCHANGED beside_mgr
    \/ \E inp \in LifecycleInputs :
           used.turns < MarkedTurns /\ ProcessTurn(inp) /\ UNCHANGED beside_mgr
    \/ \E id \in CommitmentIds :
           used.marks < MarkedMarks /\ MarkCommitmentDone(id) /\ UNCHANGED beside_mgr
    \/ ConsolidateSession /\ UNCHANGED beside_mgr
    \/ used.restarts < MarkedRestarts /\ Restart /\ UNCHANGED beside_mgr

MarkedSpec == Init /\ [][MarkedNext]_vars

\* one manager that makes promises turn after turn and marks some of them done
DoneNext ==
    \/ \E inp \in DoneInputs :
           used.turns < DoneTurns /\ ProcessTurn(inp) /\ UNCHANGED beside_mgr
    \/ \E id \in CommitmentIds :
           used.marks < DoneMarks /\ MarkCommitmentDone(id) /\ UNCHANGED beside_mgr

DoneSpec == Start /\ [][DoneNext]_vars
-----------------------------------------------------------------------------
(* Claims about retrieve_context                                           *)

RECURSIVE SumTokens(_)
SumTokens(strings) ==
    IF strings = <<>> THEN 0
    ELSE EstimateTokens(Head(strings)) + SumTokens(Tail(strings))

Placed(context) ==
    context.commitments \o context.semantic_facts \o context.recent_events

\* the number of non-empty tiers of a context
TiersServed(context) ==
    (IF context.commitments # <<>> THEN 1 ELSE 0)
        + (IF context.semantic_facts # <<>> THEN 1 ELSE 0)
        + (IF context.recent_events # <<>> THEN 1 ELSE 0)

\* C2: for every query and every max_tokens >= 0, the estimated_tokens that
\* retrieve_context returns is at most max_tokens and is the sum of the
\* len/4 estimates of the strings it placed in the context.
C2_EstimatedTokensWithinBudget ==
    \A query \in Queries :
        LET candidates == Candidates(query)
        IN  \A max_tokens \in Budgets :
                LET context == FillContext(candidates, max_tokens)
                IN  /\ context.estimated_tokens <= max_tokens
                    /\ context.estimated_tokens = SumTokens(Placed(context))

\* the number of tiers retrieve_context serves for a query, budget by budget:
\* entry b + 1 is for max_tokens = b
TiersByBudget(query) ==
    LET candidates == Candidates(query)
        Served(max_tokens) == TiersServed(FillContext(candidates, max_tokens))
    IN  MapSeq([i \in 1..(MaxBudget + 1) |-> i - 1], Served)

\* a manager holding a commitment, a fact and an event: a budget serves the three
\* tiers, and a smaller one is spent on the commitment with the rest passed over
C2_Witness ==
    \E query \in Queries :
        LET candidates == Candidates(query)
        IN  \E max_tokens \in Budgets, smaller \in Budgets :
                LET context == FillContext(candidates, max_tokens)
                    cut     == FillContext(candidates, smaller)
                IN  /\ smaller < max_tokens
                    /\ TiersServed(context) = 3
                    /\ cut.commitments # <<>>
                    /\ cut.semantic_facts = <<>>
                    /\ cut.recent_events = <<>>
                    /\ cut.estimated_tokens < smaller

\* C3: for budgets b1 <= b2 on the same state and query, retrieve_context with
\* b1 serves at most as many non-empty tiers as with b2.
C3_TiersMonotoneInBudget ==
    \A query \in Queries :
        LET served == TiersByBudget(query)
        IN  \A b1 \in Budgets, b2 \in Budgets :
                b1 <= b2 => served[b1 + 1] <= served[b2 + 1]

-----------------------------------------------------------------------------
(* Claims about commitments                                                *)

Promised(inp) == Detected[inp].commitment.found /\ Detected[inp].commitment.text # ""

IsSuffix(s, full) == \E k \in 0..Len(full) : s = SubSeq(full, k + 1, Len(full))

StrictlyAscending(s) == \A i \in 1..(Len(s) - 1) : s[i] < s[i + 1]

\* the reactivation times of a commitment made at T: T + 1, 3, 7 and 30 days
ScheduleFrom(T) == <<T + 1 * Day, T + 3 * Day, T + 7 * Day, T + 30 * Day>>

\* C5: a commitment made at T starts with the reactivation schedule
\* [T+1d, T+3d, T+7d, T+30d]; in every later state its schedule is a suffix of
\* that list, possibly empty, and strictly ascending.
C5_ScheduleIsSuffix ==
    [][ /\ \A inp \in TurnInputs :
              ProcessTurn(inp) /\ Promised(inp) =>
                  commitments_cache'[Len(commitments_cache')].reactivation_schedule
                      = ScheduleFrom(now)
        /\ \A i \in 1..Len(commitments_cache') :
              /\ IsSuffix(commitments_cache'[i].reactivation_schedule,
                          ScheduleFrom(commitments_cache'[i].made_at))
              /\ StrictlyAscending(commitments_cache'[i].reactivation_schedule) ]_vars

\* a consolidation has swept a due reactivation time off a commitment
C5_Witness ==
    /\ last_op = "consolidate_session"
    /\ \E i \in 1..Len(commitments_cache) :
          /\ Len(commitments_cache[i].reactivation_schedule) = 3
          /\ commitments_cache[i].reactivation_schedule[1]
                 = commitments_cache[i].made_at + 3 * Day

\* C6: right after consolidate_session at time now, no active commitment has a
\* reactivation time at or before now left in its schedule.
C6_NoDueEntryAfterConsolidation ==
    last_op = "consolidate_session" =>
        \A i \in 1..Len(commitments_cache) :
            commitments_cache[i].status = "active" =>
                \A k \in 1..Len(commitments_cache[i].reactivation_schedule) :
                    commitments_cache[i].reactivation_schedule[k] > now

\* C7: consolidate_session sets an active commitment whose schedule is empty
\* to expired.
C7_EmptyScheduleExpires ==
    [][ ConsolidateSession =>
            \A i \in 1..Len(commitments_cache) :
                /\ commitments_cache[i].status = "active"
                /\ commitments_cache[i].reactivation_schedule = <<>>
                => commitments_cache'[i].status = "expired" ]_vars

\* C8: a turn whose reply holds a detected promise adds exactly one commitment,
\* and it is active; mark_commitment_done on a known commitment sets it to
\* done, and when it is the one commitment made the resolution rate is 1 of 1;
\* a status changes only from active to done or from active to expired.
C8_CommitmentLifecycle ==
    [][ /\ \A inp \in TurnInputs :
              ProcessTurn(inp) /\ Promised(inp) =>
                  /\ Len(commitments_cache') = Len(commitments_cache) + 1
                  /\ SubSeq(commitments_cache', 1, Len(commitments_cache))
                         = commitments_cache
                  /\ commitments_cache'[Len(commitments_cache')].status = "active"
        /\ \A id \in CommitmentIds :
              MarkCommitmentDone(id) /\ FindCommitment(commitments_cache, id) > 0 =>
                  /\ commitments_cache'[FindCommitment(commitments_cache, id)].status
                         = "done"
                  /\ (metrics.commitments_made = 1 /\ metrics.commitments_fulfilled = 0
                      => CommitmentResolutionRate(metrics') = <<1, 1>>)
        /\ \A i \in 1..Len(commitments_cache), j \in 1..Len(commitments_cache') :
              /\ commitments_cache[i].commitment_id = commitments_cache'[j].commitment_id
              /\ commitments_cache[i].status # commitments_cache'[j].status
              => /\ commitments_cache[i].status = "active"
                 /\ commitments_cache'[j].status \in {"done", "expired"} ]_vars

\* the one commitment made has been marked done
C8_Witness ==
    /\ last_op = "mark_commitment_done"
    /\ metrics.commitments_made = 1
    /\ CommitmentResolutionRate(metrics) = <<1, 1>>
    /\ \E i \in 1..Len(commitments_cache) : commitments_cache[i].status = "done"

-----------------------------------------------------------------------------
(* Claims about corrections                                                *)

\* C9: every fact a correction leaves in the semantic cache has confidence 1.0
\* and importance at least 0.9, and the cache holds at most one fact for a
\* subject and relation.
C9_OneFactPerSubjectRelation ==
    /\ \A i \in 1..Len(semantic_cache) :
          /\ semantic_cache[i].confidence = Scale
          /\ 10 * semantic_cache[i].importance >= 9 * Scale
    /\ \A i \in 1..Len(semantic_cache), j \in 1..Len(semantic_cache) :
          /\ semantic_cache[i].triple[1] = semantic_cache[j].triple[1]
          /\ semantic_cache[i].triple[2] = semantic_cache[j].triple[2]
          => i = j

-----------------------------------------------------------------------------
(* Claims about MemoryRetriever.retrieve                                    *)

RECURSIVE SumEstimates(_)
SumEstimates(texts) ==
    IF texts = <<>> THEN 0 ELSE estimate_tokens(Head(texts)) + SumEstimates(Tail(texts))

\* the estimated size of everything a context holds
ContextTokens(context) ==
    estimate_tokens(context.pet_canon) + SumEstimates(context.commitments)
        + SumEstimates(context.semantic_facts) + estimate_tokens(context.episodic_event)
        + estimate_tokens(context.echo_trace)

\* C1: the context retrieve returns has a total estimated size (canon text,
\* commitments, semantic facts, episodic event and echo pattern together)
\* within the token budget, also when an item was truncated to fit or a tier
\* was entered with nothing left.
C1_ContextWithinBudget ==
    retrieved.outcome = "returned"
        => ContextTokens(retrieved.context) <= retrieved.token_budget

-----------------------------------------------------------------------------
(* Claims about MemoryStore.consolidate                                     *)

\* C4: consolidate is idempotent: a second call right after a first one with
\* the same threshold, no episode added in between, leaves every semantic
\* fact's weight as the first call left it and creates no fact.
C4_ConsolidateIdempotent ==
    [][ (/\ last_op = "consolidate"
         /\ last_op' = "consolidate"
         /\ mem_log'.threshold = mem_log.threshold)
        => /\ DOMAIN semantic' = DOMAIN semantic
           /\ \A key \in DOMAIN semantic : semantic'[key].weight = semantic[key].weight ]_vars

-----------------------------------------------------------------------------
(* Claims about the webhook                                                 *)

\* the texts of the episodes stored for a user
PersistedTexts(user_id) ==
    IF user_id \in DOMAIN pets
    THEN {pets[user_id].episodic[i].text : i \in 1..Len(pets[user_id].episodic)}
    ELSE {}

\* C10: the requests of one user are handled one after the other, load,
\* turn and save never interleaved, so that once two requests of a user are
\* over the stored state holds the turns of both.
C10_NoLostUpdate ==
    /\ running # 0 =>
           \A r \in 1..Len(requests) :
               r # running => requests[r].pc \in {"received", "done", "failed"}
    /\ \A r1, r2 \in 1..Len(requests) :
           (/\ r1 # r2
            /\ requests[r1].user_id = requests[r2].user_id
            /\ requests[r1].pc \in {"done", "failed"}
            /\ requests[r2].pc \in {"done", "failed"})
           => {requests[r1].message, requests[r2].message}
                  \subseteq PersistedTexts(requests[r1].user_id)

-----------------------------------------------------------------------------
(* Claims about distinct users                                              *)

\* the Firestore documents under users/{user_id}/
DocsOf(docs, user_id) == {d \in docs : StartsAt(d.path, 1, "users/" \o user_id \o "/")}

\* C11: an operation of one user (save_pet_data, process_turn,
\* mark_commitment_done, consolidate_session) leaves the stored pet of every
\* other user, and every other user's events, commitments, semantic facts,
\* metrics and documents, as they were.
C11_UsersIndependent ==
    [][ \A user_id \in Users :
            user_id # acting' =>
                /\ managers'[user_id] = managers[user_id]
                /\ DocsOf(store', user_id) = DocsOf(store, user_id)
                /\ (user_id \in DOMAIN pets') = (user_id \in DOMAIN pets)
                /\ user_id \in DOMAIN pets => pets'[user_id] = pets[user_id] ]_vars

\* one user's commitment is marked done while another user holds an active
\* one, its document and a stored pet
C11_Witness ==
    /\ acting = "u2"
    /\ last_op = "mark_commitment_done"
    /\ \E i \in 1..Len(managers["u2"].commitments_cache) :
           managers["u2"].commitments_cache[i].status = "done"
    /\ \E i \in 1..Len(managers["u1"].commitments_cache) :
           managers["u1"].commitments_cache[i].status = "active"
    /\ DocsOf(store, "u1") # {}

-----------------------------------------------------------------------------
(* Claims about AutobiographicalMemory.add_claim                            *)

\* an active item of the given type whose text holds, or is held by, the text,
\* whatever the case of the letters
SimilarTo(item, text, claim_type) ==
    /\ item.status = "active"
    /\ item.type = claim_type
    /\ \/ Contains(Lower(item.canonical_text), Lower(text))
       \/ Contains(Lower(text), Lower(item.canonical_text))

ActiveCount(items) == Cardinality({i \in 1..Len(items) : items[i].status = "active"})

Reinforced(importance) == Min(Scale, importance + Scale \div 10)

\* C12 as stated: add_claim with a text that, whatever the case, contains or is
\* contained in the text of an active item of the same type adds no item, leaves
\* the number of active items unchanged and raises the importance of such an item
\* by 0.1, capped at 1.0
C12_SimilarTextAddsNoItem ==
    [][ \A inp \in AbmClaimInputs :
            (/\ AbmAddClaim(inp)
             /\ \E i \in 1..Len(abm) : SimilarTo(abm[i], inp.text, inp.claim_type))
            => /\ Len(abm') = Len(abm)
               /\ ActiveCount(abm') = ActiveCount(abm)
               /\ \E i \in 1..Len(abm) :
                      /\ SimilarTo(abm[i], inp.text, inp.claim_type)
                      /\ abm'[i].importance = Reinforced(abm[i].importance) ]_vars

\* C12: add_claim compares the text it would keep (a text over 140 characters cut
\* to its first 137 and "..."): when an active item of the same type is similar to
\* it, no item is added, the number of active items is unchanged, the first such
\* item gains 0.1 of importance capped at 1.0 and no other item changes; otherwise
\* one active item is added; either way a second add_claim of the same text and
\* type finds a similar item, so that the same text twice leaves one item of it
C12_SimilarKeptTextReinforces ==
    [][ \A inp \in AbmClaimInputs :
            AbmAddClaim(inp) =>
                LET kept == IF Len(inp.text) > 140
                            THEN SubSeq(inp.text, 1, 137) \o "..." ELSE inp.text
                    Hits == {i \in 1..Len(abm) : SimilarTo(abm[i], kept, inp.claim_type)}
                IN  /\ Hits # {} =>
                        /\ Len(abm') = Len(abm)
                        /\ ActiveCount(abm') = ActiveCount(abm)
                        /\ \E i \in Hits :
                               /\ \A k \in Hits : i <= k
                               /\ abm'[i].importance = Reinforced(abm[i].importance)
                               /\ abm'[i].canonical_text = abm[i].canonical_text
                               /\ \A k \in 1..Len(abm) : k # i => abm'[k] = abm[k]
                    /\ Hits = {} =>
                        /\ Len(abm') = Len(abm) + 1
                        /\ ActiveCount(abm') = ActiveCount(abm) + 1
                        /\ SubSeq(abm', 1, Len(abm)) = abm
                        /\ abm'[Len(abm')].canonical_text = kept
                        /\ abm'[Len(abm')].importance = inp.importance
                    /\ \E i \in 1..Len(abm') : SimilarTo(abm'[i], kept, inp.claim_type) ]_vars

\* an add_claim has reinforced an item up to the cap, next to an item that was
\* added although its full text names another item's text
C12_Witness ==
    /\ result = [op |-> "add_claim", value |-> TRUE]
    /\ \E i \in 1..Len(abm) : abm[i].importance = Scale
    /\ \E i \in 1..Len(abm) : Len(abm[i].canonical_text) = 140

-----------------------------------------------------------------------------
(* Claims about PetCanon                                                    *)

\* the fields of a canon that update_from_abm consolidates
CanonFields(c) == <<c.role, c.capabilities, c.limits, c.style, c.principles, c.commitments>>

\* C13: update_from_abm adds exactly 1 to the version and refreshes last_updated
\* when it changes at least one field of the canon, and otherwise returns False
\* and leaves version, last_updated and every field as they were; a second
\* update_from_abm on an unchanged ABM changes nothing; the version never decreases
C13_VersionCountsChanges ==
    [][ /\ canon'.version >= canon.version
        /\ UpdateFromAbm =>
               /\ CanonFields(canon') # CanonFields(canon) =>
                      /\ result'.value = TRUE
                      /\ canon'.version = canon.version + 1
                      /\ canon'.last_updated = utcnow
                      /\ canon'.last_updated > canon.last_updated
               /\ CanonFields(canon') = CanonFields(canon) =>
                      /\ result'.value = FALSE
                      /\ canon' = canon
               /\ result.op = "update_from_abm" => canon' = canon ]_vars

\* C14: after a revise_claim that succeeds needs_update is true, whatever the
\* importance of the revised claim and the number of new items, and stays true
\* while the canon is not updated
C14_RevisionNeedsUpdate ==
    [][ /\ (\E inp \in RevisionInputs : AbmReviseClaim(inp)) /\ result'.value = TRUE
            => needs_update(canon', abm')
        /\ (/\ result.op = "revise_claim" /\ result.value = TRUE
            /\ (NeedsUpdate \/ \E inp \in CanonClaimInputs : AbmAddClaim(inp)))
            => needs_update(canon', abm') ]_vars

-----------------------------------------------------------------------------
(* Claims about SelfConsistencyGuard                                        *)

\* the ABM the draft was checked against holds claim k as an active item of
\* importance 0.4 or more
Claimed(k) ==
    \E i \in 1..Len(checked.claims) :
        checked.claims[i] = k /\ GuardClaims[k].importance >= (4 * Scale) \div 10

\* suffix of a text
EndsWith(s, suffix) ==
    Len(suffix) <= Len(s) /\ SubSeq(s, Len(s) - Len(suffix) + 1, Len(s)) = suffix

\* C15: with the active claim "Eu posso te ajudar com lembretes" in the ABM,
\* check_response reports the draft "Eu não posso ajudar com lembretes" as
\* inconsistent, with a contradiction among the issues, and the draft "Eu vou te
\* ajudar com isso!" as consistent; is_consistent is true exactly when no issue
\* is returned
C15_CheckResponseExamples ==
    draft # 0 =>
        /\ checked.is_consistent <=> checked.issues = <<>>
        /\ (Claimed(1) /\ Drafts[draft] = "Eu não posso ajudar com lembretes") =>
               /\ ~checked.is_consistent
               /\ \E i \in 1..Len(checked.issues) :
                      checked.issues[i].issue_type = "contradiction"
        /\ (Claimed(1) /\ Drafts[draft] = "Eu vou te ajudar com isso!") =>
               checked.is_consistent

\* C16: correct_response puts a corrective clause made from the conflicting item
\* of the issue of highest severity before the draft (the result differs from the
\* draft and ends with it) whenever that issue has severity 0.8 or more and is a
\* contradiction or a policy violation, and returns the draft as it is otherwise
C16_CorrectsSevereIssues ==
    corrected.called =>
        LET issues == checked.issues
            Top(i) == \A k \in 1..Len(issues) :
                          \/ issues[k].severity < issues[i].severity
                          \/ issues[k].severity = issues[i].severity /\ i <= k
            severe == \E i \in 1..Len(issues) :
                          /\ Top(i)
                          /\ issues[i].severity >= 80
                          /\ issues[i].issue_type \in {"contradiction", "broken_policy"}
        IN  IF severe
            THEN /\ corrected.text # Drafts[draft]
                 /\ EndsWith(corrected.text, Drafts[draft])
            ELSE corrected.text = Drafts[draft]

-----------------------------------------------------------------------------
(* Claims about EventSegmenter.should_segment                              *)

\* the embedding of the latest accumulated turn that has one
RECURSIVE LastEmbeddingOf(_)
LastEmbeddingOf(turns) ==
    IF turns = <<>> THEN NoEmbedding
    ELSE IF turns[Len(turns)].embedding # NoEmbedding THEN turns[Len(turns)].embedding
    ELSE LastEmbeddingOf(SubSeq(turns, 1, Len(turns) - 1))

\* minutes from the latest accumulated turn to the turn asked about
GapAsked == asked.new_timestamp - current_turns[Len(current_turns)].timestamp

\* the turn asked about is far, in topic, from the latest embedding accumulated
TopicShiftAsked ==
    /\ LastEmbeddingOf(current_turns) # NoEmbedding
    /\ asked.new_embedding # NoEmbedding
    /\ DistanceExceedsThreshold(LastEmbeddingOf(current_turns), asked.new_embedding)

\* C17: should_segment returns false with fewer than 3 accumulated turns and true
\* with 10 or more; with 3 to 9 turns it returns true exactly when the new timestamp
\* is more than 10 minutes after the last turn or the cosine distance between the
\* last and the new embedding exceeds 0.3.
C17_ShouldSegmentRule ==
    last_op = "should_segment" =>
        /\ Len(current_turns) < 3 => ~asked.result
        /\ Len(current_turns) >= 10 => asked.result
        /\ Len(current_turns) \in 3..9 =>
               (asked.result <=> (GapAsked > 10 \/ TopicShiftAsked))

\* three turns, then a turn 20 minutes later on the same topic: a new segment
C17_Witness ==
    /\ last_op = "should_segment"
    /\ Len(current_turns) = 3
    /\ GapAsked = 20
    /\ ~TopicShiftAsked
    /\ asked.result

-----------------------------------------------------------------------------
(* Claims about MemoryStore.add_episode                                     *)

\* the last n items of a sequence, all of it when it has fewer
LastItems(items, n) ==
    IF Len(items) <= n THEN items ELSE SubSeq(items, Len(items) - n + 1, Len(items))

\* C18: after any sequence of add_episode calls the episodic buffer holds at most
\* 100 items, and they are exactly the most recently added items in insertion
\* order (the oldest is evicted first when the buffer is full).
C18_BufferKeepsLatest ==
    /\ Len(episodic) <= 100
    /\ episodic = LastItems(added, 100)

\* 102 episodes were added, the second of them a marked one: the buffer is full
\* and starts at the third
C18_Witness ==
    /\ Len(added) = 102
    /\ Marked(added) = {2}
    /\ Len(episodic) = 100
    /\ episodic[1] = added[3]
    /\ Marked(episodic) = {}

-----------------------------------------------------------------------------
(* Claims about EchoTrace                                                   *)

\* success_signal * 0.6 + (usage_count / 10) * 0.4 of a pattern, ten times over
CombinedSuccessUsage(p) == 6 * p.success_signal + (4 * Fine * p.usage_count) \div 10

\* C19: after any sequence of add_pattern and extract_from_response calls on an
\* EchoTrace created with capacity max_patterns, the number of stored patterns
\* never exceeds max_patterns, and when the capacity is exceeded the patterns
\* removed are those with the lowest combined (success, usage) score.
C19_EchoWithinCapacity ==
    /\ Len(echo.patterns) <= echo.max_patterns
    /\ \A k \in 1..Len(pruned) :
           /\ Len(pruned[k].kept) = echo.max_patterns
           /\ Len(pruned[k].removed) >= 1
           /\ \A r \in 1..Len(pruned[k].removed), q \in 1..Len(pruned[k].kept) :
                  CombinedSuccessUsage(pruned[k].removed[r])
                      <= CombinedSuccessUsage(pruned[k].kept[q])

\* a full trace of capacity 2 was given a better pattern: an older pattern of a
\* strictly lower score was removed for it
C19_Witness ==
    /\ last_op = "add_pattern"
    /\ echo.max_patterns = 2
    /\ Len(echo.patterns) = 2
    /\ Len(pruned) = 1
    /\ \E q \in 1..2 :
           /\ echo.patterns[q].created_at > pruned[1].removed[1].created_at
           /\ CombinedSuccessUsage(echo.patterns[q])
                  > CombinedSuccessUsage(pruned[1].removed[1])

-----------------------------------------------------------------------------
(* Claims about the semantic-fact stores                                    *)

\* the capacity the stores are held against; the code configures none
SemanticCapacity == 2

\* C20: the semantic-fact stores (MemoryStore.semantic and
\* AdvancedMemoryManager.semantic_cache) never exceed a configured capacity: after
\* any sequence of consolidate, fact extraction and correction operations the
\* number of stored semantic facts stays within a fixed bound.
C20_SemanticStoresBounded ==
    /\ Cardinality(DOMAIN semantic) <= SemanticCapacity
    /\ Len(semantic_cache) <= SemanticCapacity

-----------------------------------------------------------------------------
(* Claims about MemoryStore.apply_memory_decay                              *)

\* the keys of the episodes a consolidation has promoted so far
PromotedKeys ==
    {Strip(Lower(episodic[i].text)) :
         i \in {j \in 1..Len(episodic) : episodic[j].salience < Scale \div 10}}

\* C30: after apply_memory_decay with non-negative elapsed hours, every fact whose
\* decayed weight is below 0.1 has been removed, every remaining fact has weight
\* >= 0.1 and no greater than before, and its last-access timestamp and access
\* count are unchanged.
C30_DecayForgetsWeakFacts ==
    [][\A hours_elapsed \in DecayHours :
           ApplyMemoryDecay(hours_elapsed) =>
               /\ DOMAIN semantic' \subseteq DOMAIN semantic
               /\ \A key \in DOMAIN semantic :
                      decayed_weight(hours_elapsed, semantic[key], now) < Scale \div 10
                          => key \notin DOMAIN semantic'
               /\ \A key \in DOMAIN semantic' :
                      /\ semantic'[key].weight >= Scale \div 10
                      /\ semantic'[key].weight <= semantic[key].weight
                      /\ semantic'[key].last_reinforced = semantic[key].last_reinforced
                      /\ semantic'[key].access_count = semantic[key].access_count]_vars

\* a decay has forgotten the fact of a promoted episode and left another fact
\* with less weight than any consolidation gives
C30_Witness ==
    /\ last_op = "apply_memory_decay"
    /\ PromotedKeys \ DOMAIN semantic # {}
    /\ \E key \in DOMAIN semantic :
           /\ semantic[key].weight >= Scale \div 10
           /\ semantic[key].weight < (4 * Scale) \div 10

-----------------------------------------------------------------------------
(* Claims about MemoryStore.consolidate                                     *)

\* 0.4 * salience + 0.6 * importance of an episodic item
Combined(m) == (4 * m.salience + 6 * m.importance_score) \div 10

KeyOf(m) == Strip(Lower(m.text))

\* the places in the buffer of the items a consolidate(threshold) promotes
PromotedAt(threshold) == {i \in 1..Len(episodic) : Combined(episodic[i]) >= threshold}

\* C29, as stated: consolidate(threshold) promotes exactly the episodic items whose
\* combined score 0.4*salience + 0.6*importance is >= threshold: for each such item
\* the fact keyed by its lower-cased, stripped text has afterwards weight = combined
\* if it was new, else min(1, old + 0.3*combined), and the item's salience is
\* reduced to 10% of its value; items below the threshold change neither semantic
\* memory nor their salience.
C29_PromotesByCombinedScore ==
    [][\A threshold \in Thresholds :
           Consolidate(threshold) =>
               /\ DOMAIN semantic' =
                      DOMAIN semantic
                          \cup {KeyOf(episodic[i]) : i \in PromotedAt(threshold)}
               /\ \A i \in PromotedAt(threshold) :
                      /\ semantic'[KeyOf(episodic[i])].weight =
                             IF KeyOf(episodic[i]) \in DOMAIN semantic
                             THEN Min(Scale, semantic[KeyOf(episodic[i])].weight
                                                 + (3 * Combined(episodic[i])) \div 10)
                             ELSE Combined(episodic[i])
                      /\ episodic'[i].salience = episodic[i].salience \div 10
               /\ \A i \in 1..Len(episodic) \ PromotedAt(threshold) :
                      episodic'[i] = episodic[i]
               /\ \A key \in DOMAIN semantic :
                      key \notin {KeyOf(episodic[i]) : i \in PromotedAt(threshold)}
                          => semantic'[key] = semantic[key]]_vars

\* the weight of a fact after the promoted items of its key, in buffer order: the
\* first sets it if the fact is new, every other one adds 0.3 of its score
RECURSIVE WeightAfter(_, _, _)
WeightAfter(known, weight, scores) ==
    IF scores = <<>> THEN weight
    ELSE WeightAfter(TRUE,
                     IF known THEN Min(Scale, weight + (3 * Head(scores)) \div 10)
                     ELSE Head(scores),
                     Tail(scores))

\* the combined scores of the items promoted to a key, in buffer order
RECURSIVE ScoresFor(_, _, _)
ScoresFor(key, threshold, i) ==
    IF i > Len(episodic) THEN <<>>
    ELSE (IF i \in PromotedAt(threshold) /\ KeyOf(episodic[i]) = key
          THEN <<Combined(episodic[i])>> ELSE <<>>)
             \o ScoresFor(key, threshold, i + 1)

\* C29, amended: the promoted items act in buffer order, so that a fact created or
\* reinforced by one item of the call is reinforced again by a later item of the
\* same key.
C29_PromotesInBufferOrder ==
    [][\A threshold \in Thresholds :
           Consolidate(threshold) =>
               /\ DOMAIN semantic' =
                      DOMAIN semantic
                          \cup {KeyOf(episodic[i]) : i \in PromotedAt(threshold)}
               /\ \A key \in DOMAIN semantic' :
                      IF ScoresFor(key, threshold, 1) = <<>>
                      THEN semantic'[key] = semantic[key]
                      ELSE semantic'[key].weight =
                               WeightAfter(key \in DOMAIN semantic,
                                           IF key \in DOMAIN semantic
                                           THEN semantic[key].weight ELSE 0,
                                           ScoresFor(key, threshold, 1))
               /\ \A i \in PromotedAt(threshold) :
                      episodic'[i].salience = episodic[i].salience \div 10
               /\ \A i \in 1..Len(episodic) \ PromotedAt(threshold) :
                      episodic'[i] = episodic[i]]_vars

\* one consolidate promoted "Gosto de cafe" (0.8) and then "gosto de cafe " (0.66)
\* to one fact of weight 0.8 + 0.3 * 0.66
C29_Witness ==
    /\ last_op = "consolidate"
    /\ mem_log.consolidations = 1
    /\ Len(episodic) = 2
    /\ episodic[1].text = "Gosto de cafe" /\ episodic[1].salience = Scale \div 20
    /\ episodic[2].text = "gosto de cafe " /\ episodic[2].salience = (9 * Scale) \div 100
    /\ "gosto de cafe" \in DOMAIN semantic
    /\ semantic["gosto de cafe"].weight = (8 * Scale) \div 10 + (3 * 6600) \div 10

-----------------------------------------------------------------------------
(* Claims about the decay of facts by access count                          *)

\* the weight a fact of the store before the last decay has lost in it; a
\* forgotten fact has lost all of it
WeightLost(key) ==
    decay_log.before[key].weight
        - (IF key \in DOMAIN semantic THEN semantic[key].weight ELSE 0)

\* C22: in apply_memory_decay the absolute weight lost by a fact is non-increasing
\* in its access count: of two facts with equal weight and equal last-access time
\* decayed over the same elapsed hours, the one accessed 10 times loses no more
\* weight than the one accessed 0 times.
C22_FrequentFactsLoseLess ==
    last_op = "apply_memory_decay" =>
        \A a \in DOMAIN decay_log.before, b \in DOMAIN decay_log.before :
            ( /\ decay_log.before[a].weight = decay_log.before[b].weight
              /\ decay_log.before[a].last_reinforced = decay_log.before[b].last_reinforced
              /\ decay_log.before[a].access_count >= decay_log.before[b].access_count )
                => WeightLost(a) <= WeightLost(b)

\* two facts of weight 0.6 accessed last at the same time, one 10 times and one
\* never: the first has lost less than the second, and both have lost some
C22_Witness ==
    /\ last_op = "apply_memory_decay"
    /\ DOMAIN decay_log.before = {"popular fact", "unused fact"}
    /\ decay_log.before["popular fact"].weight = (6 * Scale) \div 10
    /\ decay_log.before["unused fact"].weight = (6 * Scale) \div 10
    /\ decay_log.before["popular fact"].last_reinforced
           = decay_log.before["unused fact"].last_reinforced
    /\ decay_log.before["popular fact"].access_count = 10
    /\ decay_log.before["unused fact"].access_count = 0
    /\ 0 < WeightLost("popular fact")
    /\ WeightLost("popular fact") < WeightLost("unused fact")

-----------------------------------------------------------------------------
(* Claims about SalienceScorer.calculate_salience                           *)

\* two calls that differ in nothing but is_explicit
SameButExplicit(a, b) ==
    /\ a.timestamp = b.timestamp
    /\ a.at = b.at
    /\ a.repetition_count = b.repetition_count
    /\ a.is_novel = b.is_novel
    /\ a.emotion_intensity = b.emotion_intensity

\* C23: calculate_salience returns a value in [0,1] for all inputs, and with
\* timestamp, repetition count, novelty and emotion intensity held equal the score
\* with is_explicit = true is at least the score with is_explicit = false.
C23_SalienceBoundedAndExplicitFirst ==
    /\ \A i \in 1..Len(scored) : 0 <= scored[i].salience /\ scored[i].salience <= Scale
    /\ \A i \in 1..Len(scored), j \in 1..Len(scored) :
           (SameButExplicit(scored[i], scored[j])
                /\ scored[i].is_explicit /\ ~scored[j].is_explicit)
               => scored[i].salience >= scored[j].salience

\* an item scored with and without the mark, the marked one strictly higher, and
\* neither score at an end of the range
C23_Witness ==
    /\ Len(scored) = 2
    /\ SameButExplicit(scored[1], scored[2])
    /\ scored[1].is_explicit /\ ~scored[2].is_explicit
    /\ scored[2].salience > 0
    /\ scored[1].salience > scored[2].salience
    /\ scored[1].salience < Scale

-----------------------------------------------------------------------------
(* Claims about generate_text and the turn of a VirtualPet                  *)

ServiceFailed == turn.service \in {"unavailable", "raises"}

\* C26: a failure of the generation service never aborts a turn: when the model
\* is unavailable or the call raises, generate_text returns a non-empty fallback
\* reply instead of raising, and the user message of that turn is still recorded
\* in episodic memory.
C26_FallbackKeepsTheTurn ==
    ServiceFailed =>
        /\ turn.pc # "aborted"
        /\ turn.response # ""
        /\ turn.pc = "replied" =>
               /\ Len(episodic) > 0
               /\ episodic[Len(episodic)].text = turn.last_user_text

\* the service raised in the second turn of the pet, which replied and holds the
\* messages of both turns
C26_Witness ==
    /\ turn.service = "raises"
    /\ turn.pc = "replied"
    /\ turn.messages = 2
    /\ last_op = "pet_response"
    /\ turn.response # ""
    /\ Len(episodic) = 2
    /\ episodic[2].text = turn.last_user_text

-----------------------------------------------------------------------------
(* Claims about save_pet_data and get_pet_data without a Firestore client   *)

\* request r2 has loaded what request r1 of the same user saved
LoadedWhatWasSaved(r1, r2) ==
    /\ r1 # r2
    /\ requests[r1].user_id = requests[r2].user_id
    /\ requests[r1].pc = "done"
    /\ requests[r2].pc = "loaded"
    /\ requests[r1].user_id \in DOMAIN pets
    /\ pets[requests[r1].user_id] = pet_state_to_dict(requests[r1].state)

\* C25: with no Firestore client, save_pet_data(u, s) followed by get_pet_data(u)
\* returns a state whose memory equals that of s: the same episodic items in the
\* same order with the same text, salience, importance score and timestamp, and
\* the same semantic facts with the same weight, last-reinforced timestamp and
\* access count.
C25_SavedMemoryComesBack ==
    \A r1, r2 \in 1..Len(requests) :
        LoadedWhatWasSaved(r1, r2) =>
            /\ requests[r2].state.episodic = requests[r1].state.episodic
            /\ requests[r2].state.semantic = requests[r1].state.semantic

\* the part of it that the code keeps: texts and saliences in their order, and
\* the semantic facts
TextsAndFactsComeBack ==
    \A r1, r2 \in 1..Len(requests) :
        LoadedWhatWasSaved(r1, r2) =>
            /\ Len(requests[r2].state.episodic) = Len(requests[r1].state.episodic)
            /\ \A i \in 1..Len(requests[r1].state.episodic) :
                   /\ requests[r2].state.episodic[i].text
                          = requests[r1].state.episodic[i].text
                   /\ requests[r2].state.episodic[i].salience
                          = requests[r1].state.episodic[i].salience
            /\ requests[r2].state.semantic = requests[r1].state.semantic

-----------------------------------------------------------------------------
(* Claims about the persistence of the autobiographical memory              *)

\* abm.get_active_items(): the canonical texts of the active claims
ActiveTexts(items) ==
    LET all == get_active_items(items, "C-PET", 0) \o get_active_items(items, "TOOLS", 0)
        Text(item) == item.canonical_text
    IN  {Text(all[i]) : i \in 1..Len(all)}

\* C24: serializing a PetState with pet_state_to_dict and restoring it with
\* dict_to_pet_state preserves the autobiographical memory, the canon and the
\* echo patterns: the serialized data contains abm, canon and echo, and the
\* restored ABM has the same active claims with the same canonical text.
C24_IdentityPersists ==
    persisted.count > 0 =>
        /\ {"abm", "canon", "echo"} \subseteq persisted.keys
        /\ ActiveTexts(persisted.restored.abm) = ActiveTexts(persisted.saved.abm)
        /\ persisted.restored.echo.patterns = persisted.saved.echo.patterns

-----------------------------------------------------------------------------
(* Claims about repeated consolidate_session                                *)

\* C27: background consolidation is idempotent: running consolidate_session a
\* second time with no process_turn in between leaves the events, the commitment
\* statuses and reactivation schedules, and the semantic facts after the second
\* run equal to those after the first.
C27_SecondConsolidationChangesNothing ==
    session_log.runs >= 2 =>
        Held(events_cache, commitments_cache, semantic_cache) = session_log.after_first

\* consolidate_session has run twice after a turn with a promise, an event was
\* made, and an entry of the commitment's schedule is still due
C27_Witness ==
    /\ session_log.runs = 2
    /\ last_op = "consolidate_session"
    /\ events_cache # <<>>
    /\ \E i \in 1..Len(commitments_cache) :
           /\ commitments_cache[i].status = "active"
           /\ commitments_cache[i].reactivation_schedule # <<>>
           /\ Len(commitments_cache[i].reactivation_schedule) < 4
           /\ commitments_cache[i].reactivation_schedule[1] <= now

-----------------------------------------------------------------------------
(* Claims about what a new manager loads from the store                     *)

\* what a new manager would load: the stored active commitments and the stored
\* semantic facts
StoredCommitments ==
    {Commitment_from_dict(d.data) : d \in {x \in fs_commitments : x.data.status = "active"}}

StoredFacts == {SemanticFact_from_dict(d.data) : d \in fs_semantic}

\* what the live manager holds
LiveCommitments ==
    {commitments_cache[i] :
        i \in {k \in 1..Len(commitments_cache) : commitments_cache[k].status = "active"}}

LiveFacts == {semantic_cache[i] : i \in 1..Len(semantic_cache)}

\* C28: the persistent store is written on every mutation: after any sequence of
\* process_turn, mark_commitment_done and consolidate_session with a store
\* attached, a new AdvancedMemoryManager loaded from that store has the same
\* active commitments with the same remaining reactivation schedules and the
\* same semantic facts (one per subject and relation, with the latest value) as
\* the live manager's caches.
C28_StoreFollowsEveryMutation ==
    firestore_client =>
        /\ StoredCommitments = LiveCommitments
        /\ StoredFacts = LiveFacts
        /\ \A f, g \in StoredFacts :
               (f.triple[1] = g.triple[1] /\ f.triple[2] = g.triple[2]) => f = g

\* the part of it on the schedules alone
StoredSchedulesFollow == firestore_client => StoredCommitments = LiveCommitments

\* the part of it on the facts alone
StoredFactsFollow == firestore_client => StoredFacts = LiveFacts

-----------------------------------------------------------------------------
(* Claims about the stored scores                                           *)

\* a score of the scale `one` within [0, 1]
WithinUnit(score, one) == 0 <= score /\ score <= one

\* C21: every stored score stays within [0, 1]: the weights of the semantic facts
\* after add_episode, consolidate, reinforce_memory, recall and apply_memory_decay
\* (with inputs in [0, 1], boosts and elapsed hours that are not negative), the
\* importance of a claim after repeated add_claim, the success of an echo pattern
\* after repeated add_pattern, and the familiarity of the relationship after
\* repeated update_relationship.
C21_ScoresWithinUnitRange ==
    /\ \A key \in DOMAIN semantic : WithinUnit(semantic[key].weight, Scale)
    /\ \A i \in 1..Len(abm) : WithinUnit(abm[i].importance, Scale)
    /\ \A i \in 1..Len(echo.patterns) : WithinUnit(echo.patterns[i].success_signal, Fine)
    /\ WithinUnit(relationship.familiarity_level, Scale)

\* twelve messages that name the pet and ask: the familiarity reached 1.0 at the
\* tenth and stays there
C21_Witness ==
    /\ exercised = "relationship"
    /\ last_op = "update_relationship"
    /\ relationship.total_interactions = 12
    /\ relationship.familiarity_level = Scale
    /\ relationship.relationship_stage = "close_friend"
    /\ relationship.pet_name = "Rex,"

-----------------------------------------------------------------------------
(* Claims about MemoryStore.recall                                          *)

\* the facts the store held before the last recall that its query matches
MatchedByRecall ==
    LET key == Strip(Lower(recalled.query))
    IN  {text \in DOMAIN recalled.before : Contains(text, key) \/ Contains(key, text)}

\* the texts the last recall returned
ReturnedByRecall == {recalled.returned[i] : i \in 1..Len(recalled.returned)}

\* C31: recall with a query returns at most top_k matching facts in descending
\* order of weight, and adds exactly 1 to the access count of every fact that
\* matches the query, those beyond top_k that are not returned included, while it
\* leaves all weights and all facts that do not match as they were.
C31_RecallCountsEveryMatch ==
    (last_op = "recall" /\ recalled.query # "") =>
        /\ Len(recalled.returned) <= recalled.top_k
        /\ Len(recalled.returned) = Min(recalled.top_k, Cardinality(MatchedByRecall))
        /\ ReturnedByRecall \subseteq MatchedByRecall
        /\ Cardinality(ReturnedByRecall) = Len(recalled.returned)
        /\ \A i, j \in 1..Len(recalled.returned) :
               i < j => recalled.before[recalled.returned[i]].weight
                            >= recalled.before[recalled.returned[j]].weight
        /\ \A left \in MatchedByRecall \ ReturnedByRecall, text \in ReturnedByRecall :
               recalled.before[left].weight <= recalled.before[text].weight
        /\ DOMAIN semantic = DOMAIN recalled.before
        /\ \A text \in DOMAIN semantic :
               /\ semantic[text].weight = recalled.before[text].weight
               /\ text \in MatchedByRecall =>
                      semantic[text].access_count = recalled.before[text].access_count + 1
               /\ text \notin MatchedByRecall => semantic[text] = recalled.before[text]

\* three facts about coffee, the lightest written first, recalled with top_k 1: the
\* heaviest alone is returned and all three were counted
C31_Witness ==
    /\ last_op = "recall"
    /\ recalled.query = " Cafe "
    /\ recalled.top_k = 1
    /\ Cardinality(MatchedByRecall) = 3
    /\ Len(recalled.returned) = 1
    /\ recalled.before[fact_order[1]].weight < recalled.before[recalled.returned[1]].weight
    /\ \A text \in MatchedByRecall : semantic[text].access_count = 2

-----------------------------------------------------------------------------
(* Claims about EventSegmenter.create_event                                 *)

\* C32: create_event closes the open segment: the time range of the event is
\* (timestamp of the first accumulated turn, timestamp of the last) with
\* start <= end, its title has at most 80 and its summary at most 500 characters,
\* and afterwards the segmenter holds no turns, no last embedding and no last
\* timestamp; with no accumulated turns it returns None and changes nothing.
C32_CreateEventClosesSegment ==
    last_op = "create_event" =>
        IF made.turns = <<>>
        THEN /\ made.none
             /\ current_turns = made.turns
             /\ last_embedding = made.last_embedding
             /\ last_timestamp = made.last_timestamp
        ELSE /\ ~made.none
             /\ made.event.time_range = <<made.turns[1].timestamp,
                                          made.turns[Len(made.turns)].timestamp>>
             /\ made.event.time_range[1] <= made.event.time_range[2]
             /\ Len(made.event.title) <= 80
             /\ Len(made.event.summary) <= 500
             /\ current_turns = <<>>
             /\ last_embedding = NoEmbedding
             /\ last_timestamp = NoTime

\* four turns over two minutes, one of them with an embedding, closed with a
\* summarizer whose title and summary are too long: both were cut to the limit
C32_Witness ==
    /\ last_op = "create_event"
    /\ Len(made.turns) = 4
    /\ made.last_embedding = <<1, 0>>
    /\ made.event.time_range[2] = made.event.time_range[1] + 2 * Minute
    /\ Len(made.event.title) = 80
    /\ Len(made.event.summary) = 500
    /\ current_turns = <<>>

-----------------------------------------------------------------------------
(* Claims about the texts and the revisions of the autobiographical memory  *)

\* C33: the canonical text of every ABM item has at most 140 characters in every
\* reachable state, after any sequence of add_claim, revise_claim and
\* extract_from_response calls.
C33_CanonicalTextWithinCap ==
    \A i \in 1..Len(abm) : Len(abm[i].canonical_text) <= 140

\* the texts over 140 characters are those revise_claim was given: add_claim and
\* extract_from_response cut theirs
OnlyRevisionsExceedCap ==
    \A i \in 1..Len(abm) :
        Len(abm[i].canonical_text) > 140 =>
            /\ abm_log.revisions > 0
            /\ \E inp \in NotedRevisionInputs : abm[i].canonical_text = inp.new_text

\* the active items, before the last revise_claim, whose text contains its fragment
RevisableBefore ==
    {i \in 1..Len(abm_log.before) :
         /\ abm_log.before[i].status = "active"
         /\ Contains(Lower(abm_log.before[i].canonical_text), Lower(abm_log.old_text))}

\* what the last revise_claim did to the items
RevisedAsAsked ==
    result.op = "revise_claim" =>
        IF RevisableBefore = {}
        THEN abm = abm_log.before /\ ~result.value
        ELSE LET first == CHOOSE i \in RevisableBefore : \A k \in RevisableBefore : i <= k
                 new   == abm[Len(abm)]
             IN  /\ result.value
                 /\ Len(abm) = Len(abm_log.before) + 1
                 /\ \A i \in 1..Len(abm_log.before) :
                        i # first => abm[i] = abm_log.before[i]
                 /\ abm[first] = [abm_log.before[first] EXCEPT
                                      !.status = "revised",
                                      !.revision_reason = abm_log.reason]
                 /\ new.status = "active"
                 /\ new.canonical_text = abm_log.new_text
                 /\ new.type = abm_log.before[first].type
                 /\ new.importance = abm_log.before[first].importance
                 /\ new.stability = abm_log.before[first].stability

\* no step makes a revised item active
RevisedStaysRevised ==
    \A i \in 1..Len(abm) :
        abm[i].status = "revised" => (i <= Len(abm') /\ abm'[i].status = "revised")

\* C34: revise_claim marks exactly one item, the first active item whose text
\* contains the given fragment, as revised with the given reason, and appends one
\* new active item of the same type that inherits its importance and stability;
\* when no active item matches it returns None and leaves the ABM unchanged; a
\* revised item never becomes active again.
C34_ReviseClaimReplacesOne == []RevisedAsAsked /\ [][RevisedStaysRevised]_vars

\* two active claims contain the fragment, the first of them extracted from a
\* response with importance 0.7 and stability 0.9: it alone is revised and the new
\* item has its type, importance and stability
C34_Witness ==
    /\ result.op = "revise_claim"
    /\ abm_log.old_text = "POSSO"
    /\ Cardinality(RevisableBefore) = 2
    /\ abm[1].status = "revised"
    /\ abm[1].revision_reason = "mudei"
    /\ abm[2].status = "active"
    /\ abm[Len(abm)].type = "C-PET"
    /\ abm[Len(abm)].importance = (7 * Scale) \div 10
    /\ abm[Len(abm)].stability = (9 * Scale) \div 10

\* two active items of one type, the text of one inside the text of the other
\* when both are written in lower case
ActiveDuplicates ==
    {pair \in (1..Len(abm)) \X (1..Len(abm)) :
         /\ pair[1] < pair[2]
         /\ abm[pair[1]].status = "active"
         /\ abm[pair[2]].status = "active"
         /\ abm[pair[1]].type = abm[pair[2]].type
         /\ \/ Contains(Lower(abm[pair[1]].canonical_text), Lower(abm[pair[2]].canonical_text))
            \/ Contains(Lower(abm[pair[2]].canonical_text), Lower(abm[pair[1]].canonical_text))}

\* C39: after any sequence of add_claim and revise_claim calls, no two active ABM
\* items of the same type have texts of which one contains the other, whatever
\* the case of the letters: a claim revised into a text that duplicates another
\* active claim does not leave two active duplicates.
C39_NoActiveDuplicates == ActiveDuplicates = {}

\* as long as no claim was revised there are no active duplicates
NoDuplicatesBeforeRevision == abm_log.revisions = 0 => ActiveDuplicates = {}

-----------------------------------------------------------------------------
(* Claims about the stream of turns and its segments                        *)

\* the turns of the closed segments, in the order they were closed
RECURSIVE ClosedTurns(_)
ClosedTurns(closed) ==
    IF closed = <<>> THEN <<>>
    ELSE ClosedTurns(SubSeq(closed, 1, Len(closed) - 1)) \o closed[Len(closed)].turns

\* C35: every turn passed to process_turn is held in exactly one place, the open
\* segment or exactly one saved event (before events are pruned after 30 days),
\* never lost and never twice: the turn that triggers the segmentation is the
\* first turn of the next segment, and after consolidate_session the open segment
\* is empty whenever the list of session turns is empty.
C35_EveryTurnHeldOnce ==
    /\ ClosedTurns(turn_log.closed) \o current_turns = turn_log.passed
    /\ \A k \in 1..Len(turn_log.closed) : turn_log.closed[k].turns # <<>>
    /\ (last_op = "process_turn" /\ turn_log.closed # <<>>
            /\ turn_log.closed[Len(turn_log.closed)].by = "process_turn"
            /\ Len(current_turns) = 1)
           => current_turns[1] = turn_log.passed[Len(turn_log.passed)]
    /\ session_turns = <<>> => current_turns = <<>>

\* three turns, a pause, a fourth turn that closed them into an event and opened
\* the next segment, a fifth turn, and a consolidation that closed the two
C35_Witness ==
    /\ last_op = "consolidate_session"
    /\ Len(turn_log.passed) = 5
    /\ Len(turn_log.closed) = 2
    /\ turn_log.closed[1].by = "process_turn"
    /\ Len(turn_log.closed[1].turns) = 3
    /\ turn_log.closed[2].by = "consolidate_session"
    /\ turn_log.closed[2].turns[1] = turn_log.passed[4]
    /\ \A k \in 1..2 : events_cache[k].title = turn_log.closed[k].title
    /\ events_cache[1].title = "Conversa (3 turnos)"
    /\ current_turns = <<>>
    /\ session_turns = <<>>

\* C36: the stream of turns is cut into bounded units: after any sequence of
\* process_turn calls the open segment holds at most 10 turns, and every event
\* closed by the segmentation check of process_turn covers between 3 and 10 turns.
C36_SegmentsAreBounded ==
    /\ Len(current_turns) <= 10
    /\ \A k \in 1..Len(turn_log.closed) :
           turn_log.closed[k].by = "process_turn" =>
               (3 <= Len(turn_log.closed[k].turns) /\ Len(turn_log.closed[k].turns) <= 10)

\* eleven turns on one topic without a pause: the eleventh closed the ten before
\* it into one event and is alone in the open segment
C36_Witness ==
    /\ last_op = "process_turn"
    /\ Len(turn_log.passed) = 11
    /\ Len(turn_log.closed) = 1
    /\ Len(turn_log.closed[1].turns) = 10
    /\ turn_log.closed[1].title = "Conversa (10 turnos)"
    /\ Len(events_cache) = 1
    /\ events_cache[1].title = "Conversa (10 turnos)"
    /\ Len(current_turns) = 1

-----------------------------------------------------------------------------
(* Claims about the canon and the items it is derived from                  *)

\* the active items of the types given whose importance is at least 0.4
ListedItems(types) ==
    {i \in 1..Len(abm) : /\ abm[i].status = "active"
                         /\ abm[i].importance >= (4 * Scale) \div 10
                         /\ abm[i].type \in types}

\* the entries of a list of the canon
Entries(list) == {list[k] : k \in 1..Len(list)}

\* C37: after update_from_abm every capability, limit, principle and commitment
\* listed in the canon is derived from an ABM item that is active with an
\* importance of at least 0.4: when the last claim of a kind is revised away, the
\* entry of the canon disappears instead of remaining from the revised item.
C37_CanonDerivedFromActiveItems ==
    result.op = "update_from_abm" =>
        /\ \A cap \in Entries(canon.capabilities) :
               \E i \in ListedItems({"TOOLS", "C-PET"}) : Capability(abm[i]) = <<cap>>
        /\ \A limit \in Entries(canon.limits) :
               \E i \in ListedItems({"C-PET", "POLICY"}) : Limit(abm[i]) = <<limit>>
        /\ \A text \in Entries(canon.principles) :
               \E i \in ListedItems({"POLICY"}) : abm[i].canonical_text = text
        /\ \A text \in Entries(canon.commitments) :
               \E i \in ListedItems({"C&C-PERSONA"}) : abm[i].canonical_text = text

\* the principles and the commitments of the canon are always those of active
\* items: a revision leaves an active item of the same type and importance
PrinciplesAndCommitmentsDerived ==
    result.op = "update_from_abm" =>
        /\ \A text \in Entries(canon.principles) :
               \E i \in ListedItems({"POLICY"}) : abm[i].canonical_text = text
        /\ \A text \in Entries(canon.commitments) :
               \E i \in ListedItems({"C&C-PERSONA"}) : abm[i].canonical_text = text

-----------------------------------------------------------------------------
(* Claims about commitments marked done again                               *)

\* no more commitments are counted fulfilled than were counted made
FulfilledWithinMade == metrics.commitments_fulfilled <= metrics.commitments_made

\* a mark_commitment_done that turned no commitment from active to done (its id is
\* unknown or its commitment was done already) changes neither the metrics nor
\* any commitment
IdleMarkChangesNothing ==
    (/\ used'.marks = used.marks + 1
     /\ \A k \in 1..Len(commitments_cache) :
            commitments_cache[k].status = "active"
                => commitments_cache'[k].status = "active")
        => /\ metrics' = metrics
           /\ commitments_cache' = commitments_cache

\* a mark_commitment_done with an unknown id changes neither the metrics nor any
\* commitment
UnknownMarkChangesNothing ==
    (/\ used'.marks = used.marks + 1
     /\ \A k \in 1..Len(commitments_cache) : commitments_cache[k].status = "active"
     /\ commitments_cache' = commitments_cache)
        => metrics' = metrics

\* every mark_commitment_done with an unknown id changes nothing
UnknownMarksChangeNothing == [][UnknownMarkChangesNothing]_vars

\* every mark_commitment_done that turned no commitment to done changes nothing
IdleMarksChangeNothing == [][IdleMarkChangesNothing]_vars

\* as long as the manager is the one that made its commitments and no commitment
\* is marked twice, no more are fulfilled than made
FulfilledWithinMadeWhenMarkedOnce ==
    (used.restarts = 0 /\ used.marks <= 1) => FulfilledWithinMade

\* C38: in every reachable state commitments_fulfilled <= commitments_made, so the
\* resolution rate stays within [0,1]: mark_commitment_done called again on a
\* commitment that is done, or with an unknown id, changes neither the metrics
\* nor any commitment.
C38_FulfilledNeverExceedsMade ==
    []FulfilledWithinMade /\ IdleMarksChangeNothing

-----------------------------------------------------------------------------
(* Claims about the commitments listed                                      *)

\* how often a string occurs in a list
Occurrences(list, s) == Cardinality({k \in 1..Len(list) : list[k] = s})

\* how many commitments of the cache with the status given have the description
Described(status, desc) ==
    Cardinality({k \in 1..Len(commitments_cache) :
                    /\ commitments_cache[k].status = status
                    /\ commitments_cache[k].desc = desc})

\* the descriptions of the commitments of the cache
Descriptions == {commitments_cache[k].desc : k \in 1..Len(commitments_cache)}

\* a list of descriptions names no commitment that is done: each description
\* occurs at most as often as active commitments have it
NamesOnlyActive(list) ==
    /\ \A k \in 1..Len(list) : list[k] \in Descriptions
    /\ \A desc \in Descriptions : Occurrences(list, desc) <= Described("active", desc)

\* the descriptions in the commitment strings of a context
ContextDescriptions(context) ==
    [k \in 1..Len(context.commitments) |->
        CHOOSE desc \in Descriptions \cup {""} :
            \/ context.commitments[k] = "Compromisso: " \o desc
            \/ desc = "" /\ \A d \in Descriptions :
                               context.commitments[k] # "Compromisso: " \o d]

\* C40: a commitment whose status is done never appears in the commitments
\* returned by retrieve_context, in get_active_commitments or in the active
\* commitments of a daily digest, from the moment mark_commitment_done returns;
\* retrieve_context returns at most 5 commitments.
C40_DoneCommitmentsNotListed ==
    /\ \A query \in Queries, max_tokens \in DoneBudgets :
           \E context \in {retrieve_context(query, max_tokens)} :
               /\ NamesOnlyActive(ContextDescriptions(context))
               /\ Len(context.commitments) <= 5
    /\ NamesOnlyActive(get_active_commitments(commitments_cache))
    /\ NamesOnlyActive(digest_active_commitments(commitments_cache))

\* six promises are active and one, the only one of its description, was just
\* marked done: it is in none of the lists; the context and the digest hold five of
\* the six
C40_Witness ==
    /\ last_op = "mark_commitment_done"
    /\ Len(commitments_cache) = 7
    /\ \E k \in 1..7 :
           /\ commitments_cache[k].status = "done"
           /\ Described("active", commitments_cache[k].desc) = 0
           /\ \A j \in 1..7 : j # k => commitments_cache[j].status = "active"
    /\ Len(get_active_commitments(commitments_cache)) = 6
    /\ Len(digest_active_commitments(commitments_cache)) = 5
    /\ Len(retrieve_context("name", DefaultMaxTokens).commitments) = 5

====
